---------------------------- MODULE Spec2Model ----------------------------
(***************************************************************************)
(* A model of the AarogyaAI / MEDORBY triage and council service:          *)
(*   - the Red-Flag Gate RedFlagEngine (src/llm/red_flags.py),             *)
(*   - the entry points that serve symptom queries and the council event   *)
(*     stream (src/app/main.py, src/ml/pipeline.py, src/backend/main.py,   *)
(*     src/backend/council/).                                              *)
(* A Python string is a sequence of one-character strings, so that         *)
(* lower(), strip() and the substring test `flag in symptom` are computed  *)
(* as the code computes them.                                              *)
(***************************************************************************)
EXTENDS Integers, Sequences, FiniteSets, TLC

(***************************************************************************)
(* Bounds of the model.                                                    *)
(***************************************************************************)
\* longest symptom list handed to the gate
MaxSymptoms == 2
\* largest number of entries of a vitals dict handed to the gate
MaxVitals == 2

(***************************************************************************)
(* Strings.                                                                *)
(***************************************************************************)
Range(f) == { f[i] : i \in DOMAIN f }

UpperCase == <<"A","B","C","D","E","F","G","H","I","J","K","L","M",
               "N","O","P","Q","R","S","T","U","V","W","X","Y","Z">>
LowerCase == <<"a","b","c","d","e","f","g","h","i","j","k","l","m",
               "n","o","p","q","r","s","t","u","v","w","x","y","z">>
Whitespace == {" ", "\t", "\n", "\r"}
Digits == <<"0","1","2","3","4","5","6","7","8","9">>

\* str.lower(), one character
LowerOf == [c \in Range(UpperCase) |->
               LowerCase[CHOOSE i \in 1..26 : UpperCase[i] = c]]

lower_char(c) == IF c \in DOMAIN LowerOf THEN LowerOf[c] ELSE c

\* str.lower()
lower(text) == [i \in 1..Len(text) |-> lower_char(text[i])]

\* str.strip(): drops the leading and the trailing whitespace
strip(text) ==
    LET keep == { i \in 1..Len(text) : text[i] \notin Whitespace }
    IN  IF keep = {} THEN <<>>
        ELSE LET first == CHOOSE i \in keep : \A j \in keep : i <= j
                 last  == CHOOSE i \in keep : \A j \in keep : j <= i
             IN  SubSeq(text, first, last)

\* the Python test `needle in haystack` on strings
Contains(needle, haystack) ==
    \E i \in 1..(Len(haystack) - Len(needle) + 1) :
        \A j \in 1..Len(needle) : haystack[i + j - 1] = needle[j]

\* str(n) of a non-negative integer
RECURSIVE str(_)
str(n) == IF n < 10 THEN <<Digits[n + 1]>>
          ELSE str(n \div 10) \o <<Digits[(n % 10) + 1]>>

(***************************************************************************)
(* RedFlagEngine: the rule tables.                                         *)
(***************************************************************************)
IMMEDIATE_RED_FLAGS ==
    << <<"s","e","v","e","r","e"," ","c","h","e","s","t"," ","p","a","i","n">>,
       <<"c","r","u","s","h","i","n","g"," ","c","h","e","s","t"," ","p","a","i","n">>,
       <<"c","h","e","s","t"," ","p","a","i","n"," ","r","a","d","i","a","t","i","n","g"," ","t","o"," ","a","r","m">>,
       <<"c","h","e","s","t"," ","p","a","i","n"," ","r","a","d","i","a","t","i","n","g"," ","t","o"," ","j","a","w">>,
       <<"s","u","d","d","e","n"," ","s","e","v","e","r","e"," ","h","e","a","d","a","c","h","e">>,
       <<"w","o","r","s","t"," ","h","e","a","d","a","c","h","e"," ","o","f"," ","l","i","f","e">>,
       <<"s","y","n","c","o","p","e">>,
       <<"l","o","s","s"," ","o","f"," ","c","o","n","s","c","i","o","u","s","n","e","s","s">>,
       <<"u","n","c","o","n","t","r","o","l","l","e","d"," ","b","l","e","e","d","i","n","g">>,
       <<"s","e","v","e","r","e"," ","b","l","e","e","d","i","n","g">>,
       <<"h","e","m","o","p","t","y","s","i","s">>,
       <<"c","o","u","g","h","i","n","g"," ","u","p"," ","b","l","o","o","d">>,
       <<"s","e","v","e","r","e"," ","s","h","o","r","t","n","e","s","s"," ","o","f"," ","b","r","e","a","t","h">>,
       <<"d","i","f","f","i","c","u","l","t","y"," ","b","r","e","a","t","h","i","n","g">>,
       <<"u","n","a","b","l","e"," ","t","o"," ","b","r","e","a","t","h","e">>,
       <<"s","t","r","o","k","e"," ","s","y","m","p","t","o","m","s">>,
       <<"f","a","c","i","a","l"," ","d","r","o","o","p","i","n","g">>,
       <<"s","l","u","r","r","e","d"," ","s","p","e","e","c","h">>,
       <<"s","u","d","d","e","n"," ","w","e","a","k","n","e","s","s">>,
       <<"s","e","v","e","r","e"," ","a","l","l","e","r","g","i","c"," ","r","e","a","c","t","i","o","n">>,
       <<"a","n","a","p","h","y","l","a","x","i","s">>,
       <<"t","h","r","o","a","t"," ","s","w","e","l","l","i","n","g">>,
       <<"s","e","v","e","r","e"," ","a","b","d","o","m","i","n","a","l"," ","p","a","i","n">>,
       <<"r","i","g","i","d"," ","a","b","d","o","m","e","n">>,
       <<"s","u","i","c","i","d","a","l"," ","t","h","o","u","g","h","t","s">>,
       <<"s","u","i","c","i","d","e">>,
       <<"s","e","l","f"," ","h","a","r","m">>,
       <<"s","e","i","z","u","r","e">>,
       <<"c","o","n","v","u","l","s","i","o","n">> >>

URGENT_FLAGS ==
    << <<"c","h","e","s","t"," ","p","a","i","n">>,
       <<"c","h","e","s","t"," ","d","i","s","c","o","m","f","o","r","t">>,
       <<"s","h","o","r","t","n","e","s","s"," ","o","f"," ","b","r","e","a","t","h">>,
       <<"d","i","f","f","i","c","u","l","t","y"," ","b","r","e","a","t","h","i","n","g"," ","o","n"," ","e","x","e","r","t","i","o","n">>,
       <<"p","e","r","s","i","s","t","e","n","t"," ","f","e","v","e","r">>,
       <<"h","i","g","h"," ","f","e","v","e","r">>,
       <<"s","e","v","e","r","e"," ","p","a","i","n">>,
       <<"s","u","d","d","e","n"," ","v","i","s","i","o","n"," ","l","o","s","s">>,
       <<"s","u","d","d","e","n"," ","h","e","a","r","i","n","g"," ","l","o","s","s">>,
       <<"s","e","v","e","r","e"," ","h","e","a","d","a","c","h","e">>,
       <<"p","e","r","s","i","s","t","e","n","t"," ","v","o","m","i","t","i","n","g">>,
       <<"s","e","v","e","r","e"," ","d","i","a","r","r","h","e","a">>,
       <<"b","l","o","o","d"," ","i","n"," ","s","t","o","o","l">>,
       <<"b","l","o","o","d"," ","i","n"," ","u","r","i","n","e">>,
       <<"s","e","v","e","r","e"," ","d","i","z","z","i","n","e","s","s">>,
       <<"c","o","n","f","u","s","i","o","n">>,
       <<"a","l","t","e","r","e","d"," ","m","e","n","t","a","l"," ","s","t","a","t","u","s">> >>

COMBINATION_RULES ==
    << [name |-> <<"c","a","r","d","i","a","c","_","r","i","s","k">>,
        symptoms |-> << <<"c","h","e","s","t"," ","p","a","i","n">>,
                      <<"s","h","o","r","t","n","e","s","s"," ","o","f"," ","b","r","e","a","t","h">>,
                      <<"s","w","e","a","t","i","n","g">> >>,
        threshold |-> 2,
        level |-> "immediate",
        rationale |-> "Multiple cardiac symptoms present"],
       [name |-> <<"s","e","p","s","i","s","_","r","i","s","k">>,
        symptoms |-> << <<"f","e","v","e","r">>,
                      <<"c","o","n","f","u","s","i","o","n">>,
                      <<"r","a","p","i","d"," ","h","e","a","r","t"," ","r","a","t","e">>,
                      <<"l","o","w"," ","b","l","o","o","d"," ","p","r","e","s","s","u","r","e">> >>,
        threshold |-> 2,
        level |-> "immediate",
        rationale |-> "Possible sepsis - requires immediate evaluation"],
       [name |-> <<"r","e","s","p","i","r","a","t","o","r","y","_","d","i","s","t","r","e","s","s">>,
        symptoms |-> << <<"s","h","o","r","t","n","e","s","s"," ","o","f"," ","b","r","e","a","t","h">>,
                      <<"c","h","e","s","t"," ","p","a","i","n">>,
                      <<"r","a","p","i","d"," ","b","r","e","a","t","h","i","n","g">> >>,
        threshold |-> 2,
        level |-> "immediate",
        rationale |-> "Respiratory distress pattern"] >>

VITAL_THRESHOLDS ==
    (<<"h","e","a","r","t","_","r","a","t","e">> :> [min |-> 40, max |-> 120, level |-> "urgent"]) @@
    (<<"s","y","s","t","o","l","i","c","_","b","p">> :> [min |-> 90, max |-> 180, level |-> "urgent"]) @@
    (<<"d","i","a","s","t","o","l","i","c","_","b","p">> :> [min |-> 60, max |-> 110, level |-> "urgent"]) @@
    (<<"r","e","s","p","i","r","a","t","o","r","y","_","r","a","t","e">> :> [min |-> 10, max |-> 25, level |-> "urgent"]) @@
    (<<"t","e","m","p","e","r","a","t","u","r","e","_","f">> :> [min |-> 95, max |-> 103, level |-> "urgent"]) @@
    (<<"o","x","y","g","e","n","_","s","a","t","u","r","a","t","i","o","n">> :> [min |-> 92, max |-> 100, level |-> "immediate"])

(***************************************************************************)
(* RedFlagEngine: the checks.  Each returns [hit, triggered, msg]; a       *)
(* message is [level, body, items]: the text before the first colon, the   *)
(* fixed wording, and the joined list the f-string interpolates.           *)
(***************************************************************************)
NoCheck == [hit |-> FALSE, triggered |-> <<>>,
            msg |-> [level |-> "", body |-> "", items |-> <<>>]]

\* mutant: the text is trimmed but its letter case is kept
_normalize_text_keeps_case(text) == strip(text)

_normalize_text(text) == strip(lower(text))

normalized_symptoms(symptom_list) ==
    [i \in 1..Len(symptom_list) |-> _normalize_text(symptom_list[i])]

\* mutant: a flag also hits a symptom that is a part of the flag
RECURSIVE FlagHits_either_way(_, _)
FlagHits_either_way(flag, norm) ==
    IF norm = <<>> THEN <<>>
    ELSE (IF Contains(flag, Head(norm)) \/ Contains(Head(norm), flag)
          THEN <<flag>> ELSE <<>>)
         \o FlagHits_either_way(flag, Tail(norm))

\* the inner loop `for symptom in normalized_symptoms: if flag in symptom:
\* triggered.append(flag)`: the flag once per symptom that contains it
RECURSIVE FlagHits(_, _)
FlagHits(flag, norm) ==
    IF norm = <<>> THEN <<>>
    ELSE (IF Contains(flag, Head(norm)) THEN <<flag>> ELSE <<>>)
         \o FlagHits(flag, Tail(norm))

\* the outer loop `for flag in FLAGS`
RECURSIVE ScanFlags(_, _)
ScanFlags(flags, norm) ==
    IF flags = <<>> THEN <<>>
    ELSE FlagHits(Head(flags), norm) \o ScanFlags(Tail(flags), norm)

_check_immediate_flags(symptom_list) ==
    LET triggered == ScanFlags(IMMEDIATE_RED_FLAGS, normalized_symptoms(symptom_list))
    IN  IF triggered # <<>>
        THEN [hit |-> TRUE, triggered |-> triggered,
              msg |-> [level |-> "IMMEDIATE EMERGENCY",
                       body |-> "Detected critical symptoms. Seek emergency care immediately or call emergency services.",
                       items |-> triggered]]
        ELSE NoCheck

_check_urgent_flags(symptom_list) ==
    LET triggered == ScanFlags(URGENT_FLAGS, normalized_symptoms(symptom_list))
    IN  IF triggered # <<>>
        THEN [hit |-> TRUE, triggered |-> triggered,
              msg |-> [level |-> "URGENT",
                       body |-> "Detected symptoms requiring prompt evaluation. Contact your healthcare provider today or visit urgent care.",
                       items |-> triggered]]
        ELSE NoCheck

\* mutant: the inner loop has no break, so a rule symptom is counted once
\* for every user symptom that contains it
RECURSIVE matched_symptoms_no_break(_, _)
matched_symptoms_no_break(rule, norm) ==
    IF norm = <<>> THEN <<>>
    ELSE SelectSeq(rule.symptoms,
                   LAMBDA rule_symptom : Contains(rule_symptom, Head(norm)))
         \o matched_symptoms_no_break(rule, Tail(norm))

\* matched_symptoms of one rule: each rule symptom that some user symptom
\* contains, once (the inner loop breaks at the first match)
matched_symptoms(rule, norm) ==
    SelectSeq(rule.symptoms,
              LAMBDA rule_symptom :
                  \E k \in 1..Len(norm) : Contains(rule_symptom, norm[k]))

\* rule['level'].upper()
upper_level(level) ==
    CASE level = "immediate" -> "IMMEDIATE"
      [] level = "urgent"    -> "URGENT"
      [] OTHER               -> level

RECURSIVE ScanRules(_, _)
ScanRules(rules, norm) ==
    IF rules = <<>> THEN NoCheck
    ELSE LET rule    == Head(rules)
             matched == matched_symptoms(rule, norm)
         IN  IF Len(matched) >= rule.threshold
             THEN [hit |-> TRUE, triggered |-> <<rule.name>>,
                   msg |-> [level |-> upper_level(rule.level),
                            body |-> rule.rationale,
                            items |-> matched]]
             ELSE ScanRules(Tail(rules), norm)

_check_combination_rules(symptom_list) ==
    ScanRules(COMBINATION_RULES, normalized_symptoms(symptom_list))

\* mutant: a value at a bound of its band counts as outside
outside_band_inclusive(item) ==
    /\ item.name \in DOMAIN VITAL_THRESHOLDS
    /\ \/ item.value <= VITAL_THRESHOLDS[item.name].min
       \/ item.value >= VITAL_THRESHOLDS[item.name].max

\* a vitals dict is the sequence of its (name, value) items in insertion
\* order, the names distinct
outside_band(item) ==
    /\ item.name \in DOMAIN VITAL_THRESHOLDS
    /\ \/ item.value < VITAL_THRESHOLDS[item.name].min
       \/ item.value > VITAL_THRESHOLDS[item.name].max

_check_vital_signs(vital_items) ==
    LET flagged      == SelectSeq(vital_items, outside_band)
        triggered    == [i \in 1..Len(flagged) |->
                            flagged[i].name \o <<"=">> \o str(flagged[i].value)]
        is_emergency == \E i \in 1..Len(flagged) :
                            VITAL_THRESHOLDS[flagged[i].name].level = "immediate"
    IN  IF triggered # <<>>
        THEN [hit |-> TRUE, triggered |-> triggered,
              msg |-> [level |-> IF is_emergency THEN "IMMEDIATE EMERGENCY" ELSE "URGENT",
                       body |-> "Vital signs outside safe range. Seek medical attention.",
                       items |-> triggered]]
        ELSE NoCheck

\* mutant: the message's level is compared with the word, not searched for it
mentions_IMMEDIATE_exact(msg) == msg.level = "IMMEDIATE"

\* the test `"IMMEDIATE" in msg`: of a message only the level carries upper
\* case words; the items are lower-case flags and name=value pairs
mentions_IMMEDIATE(msg) == msg.level \in {"IMMEDIATE EMERGENCY", "IMMEDIATE"}

RedFlagResult(is_emergency, rationale, triggered_rules, urgency_level) ==
    [is_emergency |-> is_emergency, rationale |-> rationale,
     triggered_rules |-> triggered_rules, urgency_level |-> urgency_level]

NoFlagsRationale ==
    [level |-> "", body |-> "No immediate red flags detected.", items |-> <<>>]

\* RedFlagEngine.evaluate; vitals None and {} are both the empty sequence
\* (the only use is the truth test `if vitals:`)
evaluate(symptom_list, vital_items) ==
    LET imm   == _check_immediate_flags(symptom_list)
        combo == _check_combination_rules(symptom_list)
        urg   == _check_urgent_flags(symptom_list)
        vit   == _check_vital_signs(vital_items)
        \* after `if is_urgent:`
        u_triggered == IF urg.hit THEN urg.triggered ELSE <<>>
        u_level     == IF urg.hit THEN "urgent" ELSE "routine"
        u_rationale == IF urg.hit THEN urg.msg ELSE NoFlagsRationale
        \* after `if vitals: ... if is_vital_issue:`
        vital_issue == vital_items # <<>> /\ vit.hit
        v_triggered == IF vital_issue THEN u_triggered \o vit.triggered
                       ELSE u_triggered
        v_level     == IF vital_issue /\ u_level # "immediate" THEN "urgent"
                       ELSE u_level
        v_rationale == IF vital_issue /\ u_level # "immediate" THEN vit.msg
                       ELSE u_rationale
    IN  IF imm.hit
        THEN RedFlagResult(TRUE, imm.msg, imm.triggered, "immediate")
        ELSE IF combo.hit
        THEN RedFlagResult(TRUE, combo.msg, combo.triggered, "immediate")
        ELSE IF vital_issue /\ mentions_IMMEDIATE(vit.msg)
        THEN RedFlagResult(TRUE, vit.msg, v_triggered, "immediate")
        ELSE RedFlagResult(v_level = "immediate", v_rationale,
                           v_triggered, v_level)

(***************************************************************************)
(* Inputs of the gate.                                                     *)
(***************************************************************************)
\* strings the formulas below name
OXYGEN_SATURATION == <<"o","x","y","g","e","n","_","s","a","t","u","r","a","t","i","o","n">>
HEART_RATE == <<"h","e","a","r","t","_","r","a","t","e">>
SEVERE_CHEST_PAIN == <<"s","e","v","e","r","e"," ","c","h","e","s","t"," ","p","a","i","n">>
SEVERE_CHEST_PAIN_UPPER == <<"S","E","V","E","R","E"," ","C","H","E","S","T"," ","P","A","I","N">>
CHEST_PAIN == <<"c","h","e","s","t"," ","p","a","i","n">>
MILD_HEADACHE == <<"m","i","l","d"," ","h","e","a","d","a","c","h","e">>

SymptomPool ==
    { <<"S","E","V","E","R","E"," ","C","H","E","S","T"," ","P","A","I","N">>,
      <<" "," ","S","e","i","z","u","r","e"," ">>,
      <<"s","l","u","r","r","e","d"," ","s","p","e","e","c","h",","," ","s","u","d","d","e","n"," ","w","e","a","k","n","e","s","s">>,
      <<"c","h","e","s","t"," ","p","a","i","n">>,
      <<"s","h","o","r","t","n","e","s","s"," ","o","f"," ","b","r","e","a","t","h">>,
      <<"f","e","v","e","r">>,
      <<"c","o","n","f","u","s","i","o","n">>,
      <<"m","i","l","d"," ","h","e","a","d","a","c","h","e">>,
      <<"d","i","f","f","i","c","u","l","t","y"," ","b","r","e","a","t","h","i","n","g"," ","o","n"," ","e","x","e","r","t","i","o","n">>,
      <<>> }

VitalNames == { <<"o","x","y","g","e","n","_","s","a","t","u","r","a","t","i","o","n">>,
                <<"h","e","a","r","t","_","r","a","t","e">>,
                <<"t","e","m","p","e","r","a","t","u","r","e">> }

\* oxygen saturation just below, at and just above its band; heart rate at
\* the band's minimum and just above its maximum; for the unknown name
\* "temperature" the value the pipeline test sends
VitalValues(name) ==
    CASE name = <<"o","x","y","g","e","n","_","s","a","t","u","r","a","t","i","o","n">> ->
             { VITAL_THRESHOLDS[name].min - 1, VITAL_THRESHOLDS[name].min,
               VITAL_THRESHOLDS[name].max + 1 }
      [] name = <<"h","e","a","r","t","_","r","a","t","e">> ->
             { VITAL_THRESHOLDS[name].min, VITAL_THRESHOLDS[name].max + 1 }
      [] OTHER -> { 100 }

VitalItems == UNION { { [name |-> n, value |-> v] : v \in VitalValues(n) } : n \in VitalNames }

SeqsUpTo(S, n) == UNION { [1..k -> S] : k \in 0..n }

SymptomLists == SeqsUpTo(SymptomPool, MaxSymptoms)

VitalDicts ==
    { d \in SeqsUpTo(VitalItems, MaxVitals) :
        \A i, j \in 1..Len(d) : i # j => d[i].name # d[j].name }

(***************************************************************************)
(* The gate of the backend (src/backend/core/red_flag_engine.py), which    *)
(* POST /api/triage serves.                                                *)
(***************************************************************************)
RED_FLAG_SYMPTOMS ==
    << <<"c","h","e","s","t"," ","p","a","i","n"," ","r","a","d","i","a","t","i","n","g">>,
       <<"c","a","n"," ","o","n","l","y"," ","s","p","e","a","k"," ","i","n"," ","s","h","o","r","t"," ","s","e","n","t","e","n","c","e","s">>,
       <<"u","n","c","o","n","t","r","o","l","l","a","b","l","e"," ","b","l","e","e","d","i","n","g">>,
       <<"s","u","d","d","e","n"," ","w","e","a","k","n","e","s","s">>,
       <<"s","u","d","d","e","n"," ","n","u","m","b","n","e","s","s">>,
       <<"s","l","u","r","r","e","d"," ","s","p","e","e","c","h">>,
       <<"o","v","e","r","d","o","s","e">>,
       <<"t","o","x","i","c"," ","i","n","g","e","s","t","i","o","n">>,
       <<"l","o","s","s"," ","o","f"," ","c","o","n","s","c","i","o","u","s","n","e","s","s">>,
       <<"n","o","t"," ","b","r","e","a","t","h","i","n","g">>,
       <<"s","e","v","e","r","e"," ","h","e","a","d"," ","i","n","j","u","r","y">> >>

\* check_symptom_text: the first phrase of the list that text.lower()
\* contains
check_symptom_text(text) ==
    LET lower_text == lower(text)
        hits == { i \in 1..Len(RED_FLAG_SYMPTOMS) :
                      Contains(RED_FLAG_SYMPTOMS[i], lower_text) }
    IN  IF hits = {} THEN [flag |-> FALSE, phrase |-> <<>>]
        ELSE [flag |-> TRUE,
              phrase |-> RED_FLAG_SYMPTOMS[CHOOSE i \in hits : \A j \in hits : i <= j]]

\* check_vital_signs looks five names up (vitals.get) and compares them in
\* this order; a value is in whole units
CORE_VITAL_NAMES ==
    << <<"h","e","a","r","t","_","r","a","t","e">>,
       <<"s","p","o","2">>,
       <<"r","e","s","p","i","r","a","t","o","r","y","_","r","a","t","e">>,
       <<"s","y","s","t","o","l","i","c","_","b","p">>,
       <<"t","e","m","p","e","r","a","t","u","r","e","_","c">> >>

\* the test of each `if` of check_vital_signs on a number; the temperature
\* limits 39.5 and 35.0 are compared in tenths
core_critical(name, value) ==
    CASE name = CORE_VITAL_NAMES[1] -> value > 110 \/ value < 50
      [] name = CORE_VITAL_NAMES[2] -> value < 94
      [] name = CORE_VITAL_NAMES[3] -> value > 24 \/ value < 8
      [] name = CORE_VITAL_NAMES[4] -> value > 180 \/ value < 80
      [] name = CORE_VITAL_NAMES[5] -> 10 * value > 395 \/ 10 * value < 350
      [] OTHER -> FALSE

\* an item of a vitals map holds a number (field value) or, when the JSON
\* value was a string, its text (field text); comparing a string with a
\* number raises TypeError
is_number(item) == "value" \in DOMAIN item

\* vitals.get(name): the position of the item, 0 for None
vitals_get(vital_items, name) ==
    IF \E i \in 1..Len(vital_items) : vital_items[i].name = name
    THEN CHOOSE i \in 1..Len(vital_items) : vital_items[i].name = name
    ELSE 0

\* check_vital_signs from its k-th `if` on: the first name that is present
\* decides when its value is critical (return True) or is no number (the
\* comparison raises)
RECURSIVE core_scan(_, _)
core_scan(vital_items, k) ==
    IF k > Len(CORE_VITAL_NAMES)
    THEN [raised |-> FALSE, flag |-> FALSE, reason |-> <<>>]
    ELSE LET at == vitals_get(vital_items, CORE_VITAL_NAMES[k])
         IN  IF at = 0 THEN core_scan(vital_items, k + 1)
             ELSE IF ~is_number(vital_items[at])
             THEN [raised |-> TRUE, flag |-> FALSE, reason |-> <<>>]
             ELSE IF core_critical(CORE_VITAL_NAMES[k], vital_items[at].value)
             THEN [raised |-> FALSE, flag |-> TRUE,
                   reason |-> CORE_VITAL_NAMES[k] \o <<"=">>
                                  \o str(vital_items[at].value)]
             ELSE core_scan(vital_items, k + 1)

check_vital_signs(vital_items) == core_scan(vital_items, 1)

\* evaluate of the backend gate: vitals first, then the text
red_flag_evaluate(symptom_text, vital_items) ==
    LET vital   == check_vital_signs(vital_items)
        symptom == check_symptom_text(symptom_text)
    IN  [raised |-> vital.raised,
         is_emergency |-> ~vital.raised /\ (vital.flag \/ symptom.flag),
         reason |-> IF vital.raised THEN <<>>
                    ELSE IF vital.reason # <<>> THEN vital.reason
                    ELSE symptom.phrase]

\* RedFlagEngine._check_vital_signs raises TypeError when it compares a
\* value that is no number, which it does for every known name
_check_vital_signs_raises(vital_items) ==
    \E i \in 1..Len(vital_items) :
        /\ vital_items[i].name \in DOMAIN VITAL_THRESHOLDS
        /\ ~is_number(vital_items[i])

\* RedFlagEngine.evaluate raises when it reaches the vitals check (no
\* immediate keyword, no combination, `if vitals:`) and the check raises
evaluate_raises(symptom_list, vital_items) ==
    /\ ~_check_immediate_flags(symptom_list).hit
    /\ ~_check_combination_rules(symptom_list).hit
    /\ vital_items # <<>>
    /\ _check_vital_signs_raises(vital_items)

(***************************************************************************)
(* Vitals maps as a client may send them: numbers and strings, known and   *)
(* unknown names.                                                          *)
(***************************************************************************)
SPO2 == CORE_VITAL_NAMES[2]
TEMPERATURE == <<"t","e","m","p","e","r","a","t","u","r","e">>

AnyVitalItems ==
    { [name |-> HEART_RATE, value |-> 121],
      [name |-> HEART_RATE, value |-> 72],
      [name |-> HEART_RATE, text |-> "fast"],
      [name |-> SPO2, value |-> 93],
      [name |-> SPO2, text |-> "low"],
      [name |-> OXYGEN_SATURATION, text |-> "low"],
      [name |-> TEMPERATURE, value |-> 100],
      [name |-> TEMPERATURE, text |-> "high"] }

AnyVitalDicts ==
    { d \in SeqsUpTo(AnyVitalItems, MaxVitals) :
        \A i, j \in 1..Len(d) : i # j => d[i].name # d[j].name }

(***************************************************************************)
(* The LLM council (src/backend/council/).  A response text is a sequence  *)
(* of tokens: "{", "}", the members of a JSON object (one token for each   *)
(* "key": value pair), or any other word.  A Python dict is a function     *)
(* from its keys; where the order of its keys is used it is the sequence   *)
(* of its keys in insertion order.                                         *)
(***************************************************************************)
COUNCIL_MODELS ==
    << [name |-> "member_a", model |-> "llama-3.3-70b-versatile"],
       [name |-> "member_b", model |-> "llama-3.1-8b-instant"],
       [name |-> "member_c", model |-> "qwen/qwen3-32b"],
       [name |-> "chairman", model |-> "llama-3.3-70b-versatile"],
       [name |-> "reviewer", model |-> "llama-3.1-8b-instant"] >>

\* mutant: the fan-out is not restricted to the divergence members
is_any_member(entry) == TRUE

\* `if name in ("member_a", "member_b", "member_c")`
is_divergence_member(entry) == entry.name \in {"member_a", "member_b", "member_c"}

\* the keys of the dict `tasks`, in order
task_names ==
    LET kept == SelectSeq(COUNCIL_MODELS, is_divergence_member)
    IN  [i \in 1..Len(kept) |-> kept[i].name]

\* a JSON value: its type and its content
JList(items) == [t |-> "list", v |-> items]
JNum(n)      == [t |-> "number", v |-> <<n>>]
JBool(b)     == [t |-> "bool", v |-> <<b>>]
JStr(s)      == [t |-> "string", v |-> <<s>>]

\* the members of JSON objects that occur in the responses
JSON_MEMBERS ==
    ("differentials:[]"        :> [key |-> "differentials", value |-> JList(<<>>)]) @@
    ("next_steps:[]"           :> [key |-> "next_steps", value |-> JList(<<>>)]) @@
    ("confidence:0"            :> [key |-> "confidence", value |-> JNum("0")]) @@
    ("red_flag:false"          :> [key |-> "red_flag", value |-> JBool("false")]) @@
    ("differentials:[dx_a]"    :> [key |-> "differentials", value |-> JList(<<"dx_a">>)]) @@
    ("differentials:[dx_b]"    :> [key |-> "differentials", value |-> JList(<<"dx_b">>)]) @@
    ("differentials:[dx_c]"    :> [key |-> "differentials", value |-> JList(<<"dx_c">>)]) @@
    ("differentials:5"         :> [key |-> "differentials", value |-> JNum("5")]) @@
    ("ranking:7"               :> [key |-> "ranking", value |-> JNum("7")]) @@
    ("confidence:0.8"          :> [key |-> "confidence", value |-> JNum("0.8")]) @@
    ("ranking:[B,A,C]"         :> [key |-> "ranking", value |-> JList(<<"B", "A", "C">>)]) @@
    ("ranking:[D,A,B]"         :> [key |-> "ranking", value |-> JList(<<"D", "A", "B">>)]) @@
    ("reasoning:b is best"     :> [key |-> "reasoning", value |-> JStr("b is best")]) @@
    ("summary:5"               :> [key |-> "summary", value |-> JNum("5")]) @@
    ("summary:rest and fluids" :> [key |-> "summary", value |-> JStr("rest and fluids")])

\* the string query_council_parallel puts in place of a failed call
SENTINEL ==
    <<"{", "differentials:[]", "next_steps:[]", "confidence:0", "red_flag:false", "}">>

\* text[:300], in tokens
RAW_CAP == 300

Min(a, b) == IF a < b THEN a ELSE b

\* json.loads of text[start:end], which starts with "{" and ends with "}":
\* it parses when everything between the braces is members of an object
json_loads(slice) ==
    LET inner == SubSeq(slice, 2, Len(slice) - 1)
        ok    == Len(slice) >= 2 /\ \A i \in 1..Len(inner) : inner[i] \in DOMAIN JSON_MEMBERS
        keys  == { JSON_MEMBERS[inner[i]].key : i \in 1..Len(inner) }
        \* a repeated key keeps its last value
        last(k) == CHOOSE i \in 1..Len(inner) :
                       /\ JSON_MEMBERS[inner[i]].key = k
                       /\ \A j \in 1..Len(inner) :
                              JSON_MEMBERS[inner[j]].key = k => j <= i
    IN  [ok |-> ok,
         value |-> IF ok THEN [k \in keys |-> JSON_MEMBERS[inner[last(k)]].value]
                   ELSE <<>>]

\* mutant: a response that does not parse is dropped, not kept as raw
_safe_parse_json_drops_raw(text) ==
    LET opens  == { i \in 1..Len(text) : text[i] = "{" }
        closes == { i \in 1..Len(text) : text[i] = "}" }
        start  == IF opens = {} THEN 0
                  ELSE CHOOSE i \in opens : \A j \in opens : i <= j
        end    == IF closes = {} THEN 0
                  ELSE CHOOSE i \in closes : \A j \in closes : j <= i
    IN  IF start # 0 /\ end >= start /\ json_loads(SubSeq(text, start, end)).ok
        THEN json_loads(SubSeq(text, start, end)).value
        ELSE <<>>

\* _safe_parse_json: None and "" give {}; the object from the first "{" to
\* the last "}" when it parses; else {"raw": text[:300]}.  With positions
\* counted from 1, text.find("{") != -1 is start # 0 and
\* text.rfind("}") + 1 > text.find("{") is end >= start.
_safe_parse_json(text) ==
    LET opens  == { i \in 1..Len(text) : text[i] = "{" }
        closes == { i \in 1..Len(text) : text[i] = "}" }
        start  == IF opens = {} THEN 0
                  ELSE CHOOSE i \in opens : \A j \in opens : i <= j
        end    == IF closes = {} THEN 0
                  ELSE CHOOSE i \in closes : \A j \in closes : j <= i
    IN  IF text = <<>> THEN <<>>
        ELSE IF start # 0 /\ end >= start /\ json_loads(SubSeq(text, start, end)).ok
        THEN json_loads(SubSeq(text, start, end)).value
        ELSE [raw |-> SubSeq(text, 1, Min(Len(text), RAW_CAP))]

\* dict.get(key, default)
get(dict, key, default) == IF key \in DOMAIN dict THEN dict[key] ELSE default

\* the truth value of a JSON value: [], "", 0 and false are false
truthy(value) ==
    CASE value.t = "list"   -> value.v # <<>>
      [] value.t = "string" -> value.v # <<"">>
      [] value.t = "number" -> value.v \notin {<<"0">>, <<"0.0">>}
      [] value.t = "bool"   -> value.v = <<"true">>
      [] OTHER              -> FALSE

\* the outcome of one call query_groq: the text returned, or the exception
\* the provider call raised (query_groq catches nothing)
Returned(text) == [raised |-> FALSE, text |-> text, error |-> ""]
Raised(error)  == [raised |-> TRUE, text |-> <<>>, error |-> error]

\* mutant: the results come in the order in which the calls completed
gather_as_completed(awaitables, outcome, completion) ==
    [i \in 1..Len(awaitables) |-> outcome[completion[i]]]

\* asyncio.gather(*awaitables, return_exceptions=True): the results in the
\* order of the awaitables, whatever the order of completion
gather(awaitables, outcome, completion) ==
    [i \in 1..Len(awaitables) |-> outcome[awaitables[i]]]

\* query_council_parallel, once every call has completed: zip(tasks.keys(),
\* results) with the sentinel in place of an exception
query_council_parallel(outcome, completion) ==
    LET results == gather(task_names, outcome, completion)
    IN  [i \in 1..Len(task_names) |->
            [name |-> task_names[i],
             text |-> IF results[i].raised THEN SENTINEL ELSE results[i].text]]

\* run_divergence: {name: _safe_parse_json(text)}, as the sequence of its
\* items
run_divergence(outcome, completion) ==
    LET raw_responses == query_council_parallel(outcome, completion)
    IN  [i \in 1..Len(raw_responses) |->
            [name |-> raw_responses[i].name,
             parsed |-> _safe_parse_json(raw_responses[i].text)]]

\* chr(65 + i)
LETTERS == <<"A", "B", "C", "D", "E">>
chr65(i) == LETTERS[i + 1]

\* anon_map = {m: chr(65 + i) for i, m in enumerate(members)}, as the
\* sequence of its items
anon_map_of(divergence_results) ==
    [i \in 1..Len(divergence_results) |->
        [member |-> divergence_results[i].name, letter |-> chr65(i - 1)]]

\* _summarise_response: parsed.get("differentials", [])[:3] is sliced and
\* joined, which raises TypeError unless it is a list of strings or a string
_summarise_response(parsed) ==
    LET differentials == get(parsed, "differentials", JList(<<>>))
        diffs == SubSeq(differentials.v, 1, Min(Len(differentials.v), 3))
    IN  [raised |-> differentials.t \notin {"list", "string"},
         diffs  |-> IF diffs = <<>> THEN <<"none">> ELSE diffs,
         conf   |-> get(parsed, "confidence", JStr("?")),
         rf     |-> get(parsed, "red_flag", JBool("false"))]

\* building summary_lines raises when a summary does
summary_raises(divergence_results) ==
    \E i \in 1..Len(divergence_results) :
        _summarise_response(divergence_results[i].parsed).raised

\* the fallback of run_convergence
default_review(anon_map) ==
    [ranking   |-> JList([i \in 1..Len(anon_map) |-> anon_map[i].letter]),
     reasoning |-> JStr("default order")]

\* run_convergence after the reviewer has answered review_text
run_convergence(divergence_results, review_text) ==
    LET anon_map == anon_map_of(divergence_results)
        parsed   == _safe_parse_json(review_text)
        peer_review ==
            IF "ranking" \in DOMAIN parsed /\ truthy(parsed["ranking"])
            THEN parsed
            ELSE default_review(anon_map)
    IN  [anon_map |-> anon_map, peer_review |-> peer_review,
         divergence_results |-> divergence_results]

\* run_synthesis up to the chairman call: the top-ranked member's response.
\* ranking[0] is the first item of a list or the first character of a
\* string, and raises for any other non-empty value.
top_response(convergence_data) ==
    LET divergence_results == convergence_data.divergence_results
        anon_map == convergence_data.anon_map
        ranking  == get(convergence_data.peer_review, "ranking", JList(<<>>))
        rev_map  == [l \in { anon_map[i].letter : i \in 1..Len(anon_map) } |->
                        (CHOOSE i \in 1..Len(anon_map) : anon_map[i].letter = l)]
        raises   == truthy(ranking) /\ ranking.t \notin {"list", "string"}
        top_key  == IF truthy(ranking)
                    THEN (IF ranking.v[1] \in DOMAIN rev_map
                          THEN anon_map[rev_map[ranking.v[1]]].member
                          ELSE "None")
                    ELSE divergence_results[1].name
        found    == { i \in 1..Len(divergence_results) :
                          divergence_results[i].name = top_key }
    IN  [raised |-> raises,
         top_key |-> IF raises THEN "None" ELSE top_key,
         value |-> IF raises \/ found = {} THEN <<>>
                   ELSE divergence_results[CHOOSE i \in found : TRUE].parsed]

\* the event stream of council_event_generator: the payload of each
\* `data:` line
StageEvent(stage, status, data) == [stage |-> stage, status |-> status, data |-> data]
RunningEvent(stage) == [stage |-> stage, status |-> "running"]
DoneEvent == [stage |-> "done"]
ErrorEvent(e) == [stage |-> "error", message |-> e]

\* mutant: `convergence running` is emitted after the reviewer has answered
GENERATOR_STEPS_running_late ==
    << "classification", "rag_retrieval", "divergence_running", "divergence",
       "gather", "convergence", "await_reviewer", "convergence_running",
       "synthesis_running", "synthesis", "await_chairman", "store", "done",
       "closed" >>

\* the statements of council_event_generator's try block, in order; the
\* awaits of the LLM calls are steps of their own
GENERATOR_STEPS ==
    << "classification", "rag_retrieval", "divergence_running", "divergence",
       "gather", "convergence_running", "convergence", "await_reviewer",
       "synthesis_running", "synthesis", "await_chairman", "store", "done",
       "closed" >>

\* the statement after `step`
after(step) ==
    LET i == CHOOSE k \in 1..Len(GENERATOR_STEPS) : GENERATOR_STEPS[k] = step
    IN  GENERATOR_STEPS[i + 1]

\* mutant: an exception is swallowed and nothing is emitted
on_exception_silent(emitted, e) == emitted

\* mutant: done is emitted in a finally clause, after the error event too
on_exception_then_done(emitted, e) ==
    Append(Append(emitted, ErrorEvent(e)), DoneEvent)

\* `except Exception as e: yield error`: the events once an exception has
\* left the try block; the generator then returns
on_exception(emitted, e) == Append(emitted, ErrorEvent(e))

\* store_consultation returns the record id, or sqlite3 raises
StoreOutcomes == {"written", "failed"}

\* synthesis.get("summary", "")[:500], evaluated while the arguments of
\* store_consultation are built: slicing raises TypeError unless the
\* summary is a string or a list
council_summary_raises(synthesis_record) ==
    get(synthesis_record, "summary", JStr("")).t \notin {"string", "list"}

\* mutant: the post-stage has no try block of its own, so an exception
\* reaches the generator's `except Exception`
post_stage_unguarded(synthesis_record, outcome) ==
    LET st == IF council_summary_raises(synthesis_record) THEN "not_called"
              ELSE outcome
    IN  [store |-> st, raised |-> st # "written"]

\* the post-stage try block of council_event_generator: store_consultation
\* is called once its arguments are built, and `except Exception` prints
\* and drops whatever was raised
post_stage(synthesis_record, outcome) ==
    [store  |-> IF council_summary_raises(synthesis_record) THEN "not_called"
                ELSE outcome,
     raised |-> FALSE]

(***************************************************************************)
(* Inputs of the entry points, and what the providers may answer.          *)
(***************************************************************************)
SLURRED_SPEECH == <<"s","l","u","r","r","e","d"," ","s","p","e","e","c","h",","," ","s","u","d","d","e","n"," ","w","e","a","k","n","e","s","s">>
BLANK == <<" "," ">>

\* symptom lists sent to /query and to process_query
RequestSymptomLists ==
    { <<SEVERE_CHEST_PAIN_UPPER>>, <<CHEST_PAIN>>, <<MILD_HEADACHE>>, <<>> }

RequestVitals ==
    { <<>>, <<[name |-> OXYGEN_SATURATION, value |-> 91]>> }

\* prompts sent to /api/council
RequestPrompts == { SLURRED_SPEECH, MILD_HEADACHE, BLANK }

PROSE == <<"I", "cannot", "assess", "this">>

\* a diverger's answer: its JSON object inside a markdown fence
MemberAnswer(name) ==
    <<"~~~json", "{",
      CASE name = "member_a" -> "differentials:[dx_a]"
        [] name = "member_b" -> "differentials:[dx_b]"
        [] OTHER             -> "differentials:[dx_c]",
      "confidence:0.8", "}", "~~~">>

REVIEW_ANSWER == <<"{", "ranking:[B,A,C]", "reasoning:b is best", "}">>
CHAIRMAN_ANSWER == <<"{", "summary:rest and fluids", "confidence:0.8", "}">>

\* well-formed JSON of the wrong shape
NUMBER_DIFFERENTIALS == <<"{", "differentials:5", "}">>
NUMBER_RANKING == <<"{", "ranking:7", "}">>

\* a ranking that names a letter no response of this request was given
UNKNOWN_LETTER_RANKING == <<"{", "ranking:[D,A,B]", "}">>

\* a chairman's answer whose summary is a number
NUMBER_SUMMARY == <<"{", "summary:5", "confidence:0.8", "}">>

\* what the SDK raises when its deadline for a request passes (AsyncGroq is
\* made without a timeout argument, so the SDK's default deadline applies)
TIMEOUT == "APITimeoutError: Request timed out."

\* what a call to the provider may end with
MemberOutcomes(name) ==
    { Returned(MemberAnswer(name)), Returned(PROSE),
      Raised("APIConnectionError: Connection error.") }
        \cup (IF name = "member_a" THEN { Returned(NUMBER_DIFFERENTIALS) } ELSE {})
        \cup (IF name = "member_c" THEN { Raised(TIMEOUT) } ELSE {})
ReviewerOutcomes ==
    { Returned(REVIEW_ANSWER), Returned(PROSE), Returned(NUMBER_RANKING),
      Returned(UNKNOWN_LETTER_RANKING),
      Raised("RateLimitError: rate limit reached"), Raised(TIMEOUT) }
ChairmanOutcomes ==
    { Returned(CHAIRMAN_ANSWER), Returned(PROSE), Returned(NUMBER_SUMMARY),
      Raised(TIMEOUT) }

Roles == { COUNCIL_MODELS[i].name : i \in 1..Len(COUNCIL_MODELS) }

NotCalled == [state |-> "idle", raised |-> FALSE, text |-> <<>>, error |-> ""]
Pending   == [state |-> "pending", raised |-> FALSE, text |-> <<>>, error |-> ""]
Completed(outcome) ==
    [state |-> "done", raised |-> outcome.raised, text |-> outcome.text,
     error |-> outcome.error]

NoResult == RedFlagResult(FALSE, NoFlagsRationale, <<>>, "unevaluated")

(***************************************************************************)
(* State.                                                                  *)
(***************************************************************************)
VARIABLES
    symptoms,          \* the symptom list of the request
    vitals,            \* its vitals dict
    result,            \* the RedFlagResult of RedFlagEngine.evaluate
    entry,             \* the entry point serving the request
    sanitized_prompt,  \* the prompt of a council request
    pc,                \* the statement the handler or generator is at
    response,          \* the status of the handler's response
    work,              \* the downstream work started for the request
    events,            \* the events the council stream has emitted
    calls,             \* the LLM call of each council role
    completion,        \* the divergers in the order their calls completed
    rag_results,       \* len(rag_results)
    divergence,        \* run_divergence's result
    convergence,       \* run_convergence's result
    synthesis,         \* run_synthesis's result
    raised,            \* the statement whose exception left the try block
    store,             \* the hospital-store write
    _pending_updates,  \* aggregator: the buffer of pending client updates
    _current_version,  \* aggregator: the version counter of the process
    adapter_store,     \* the files adapter_v<N>.json, by N
    write_log,         \* the N of every adapter_v<N>.json written, in order
    requests,          \* the /api/federated/update requests, by arrival
    running,           \* the request the event loop is running, 0 for none
    restarts,          \* the restarts of the process so far
    reports_index,     \* reports_index.json: the report records, in order
    raw_files,         \* the raw files in user_reports/, by name
    reports_made,      \* the reports ingested so far (the ids drawn)
    _engine,           \* rag.engine._engine, the singleton
    last,              \* the last call on the report store and its result
    arguments,         \* the arguments of a call of a pure function
    returned,          \* what the call returned
    writers            \* the report-store calls in progress, one per thread

gate_vars == <<symptoms, vitals, result>>
request_vars == <<entry, sanitized_prompt, pc, response, work>>
council_vars == <<events, calls, completion, rag_results, divergence,
                  convergence, synthesis, raised, store>>
federated_vars == <<_pending_updates, _current_version, adapter_store,
                    write_log, requests, running, restarts>>
report_vars == <<reports_index, raw_files, reports_made, _engine, last>>
pure_vars == <<arguments, returned>>
backend_vars == <<federated_vars, report_vars, pure_vars, writers>>
vars == <<gate_vars, request_vars, council_vars, backend_vars>>

NoCouncil ==
    /\ events = <<>>
    /\ calls = [r \in Roles |-> NotCalled]
    /\ completion = <<>>
    /\ rag_results = 0
    /\ divergence = <<>>
    /\ convergence = <<>>
    /\ synthesis = <<>>
    /\ raised = "none"
    /\ store = "none"

\* the aggregator module as imported, the adapter store empty
NoFederated ==
    /\ _pending_updates = <<>>
    /\ _current_version = 0
    /\ adapter_store = <<>>
    /\ write_log = <<>>
    /\ requests = <<>>
    /\ running = 0
    /\ restarts = 0

\* the RAGEngine of __init__, and the name _engine before the first use
NewEngine == [exists |-> TRUE, documents |-> <<>>, _is_built |-> FALSE, index |-> <<>>]
NoEngine  == [exists |-> FALSE, documents |-> <<>>, _is_built |-> FALSE, index |-> <<>>]

NoCall == [op |-> "none", id |-> 0, returned |-> <<>>, response |-> ""]

\* user_reports/ empty and the engine not yet made
NoReports ==
    /\ reports_index = <<>>
    /\ raw_files = {}
    /\ reports_made = 0
    /\ _engine = NoEngine
    /\ last = NoCall

\* no call of a pure function, no report-store call in progress
NoCalls ==
    /\ arguments = <<>>
    /\ returned = <<>>
    /\ writers = <<>>

NoBackend == NoFederated /\ NoReports /\ NoCalls

(***************************************************************************)
(* The gate alone: RedFlagEngine.evaluate on every input.                  *)
(***************************************************************************)
GateInit ==
    /\ symptoms \in SymptomLists
    /\ vitals \in VitalDicts
    /\ result = NoResult
    /\ entry = "evaluate"
    /\ sanitized_prompt = <<>>
    /\ pc = "start"
    /\ response = "none"
    /\ work = {}
    /\ NoCouncil
    /\ NoBackend

\* a call RedFlagEngine.evaluate(symptoms, vitals)
Evaluate ==
    /\ entry = "evaluate"
    /\ result.urgency_level = "unevaluated"
    /\ result' = evaluate(symptoms, vitals)
    /\ UNCHANGED <<backend_vars, symptoms, vitals, request_vars, council_vars>>

GateNext == Evaluate

SpecGate == GateInit /\ [][GateNext]_vars

(***************************************************************************)
(* One request on an entry point that serves symptom queries.              *)
(***************************************************************************)
ServiceInit ==
    /\ entry \in {"query", "process_query", "council"}
    /\ \/ /\ entry = "council"
          /\ sanitized_prompt \in RequestPrompts
          /\ symptoms = <<>>
          /\ vitals = <<>>
       \/ /\ entry # "council"
          /\ sanitized_prompt = <<>>
          /\ symptoms \in RequestSymptomLists
          /\ vitals \in RequestVitals
    /\ result = NoResult
    /\ pc = "start"
    /\ response = "none"
    /\ work = {}
    /\ NoCouncil
    /\ NoBackend

\* ---- POST /query (src/app/main.py) ----

\* Step 1: evaluate red flags first
QueryEvaluate ==
    /\ entry = "query" /\ pc = "start"
    /\ result' = evaluate(symptoms, vitals)
    /\ pc' = "red_flags_checked"
    /\ UNCHANGED <<backend_vars, symptoms, vitals, entry, sanitized_prompt, response, work,
                   council_vars>>

\* Step 2: an emergency is answered at once
QueryEmergency ==
    /\ entry = "query" /\ pc = "red_flags_checked"
    /\ result.is_emergency
    /\ response' = "EMERGENCY"
    /\ pc' = "closed"
    /\ UNCHANGED <<backend_vars, gate_vars, entry, sanitized_prompt, work, council_vars>>

\* Steps 3 and 4: the sanitizer runs; it may reject the data (ValueError),
\* and any other exception becomes the HTTP 500 answer
QuerySanitize ==
    /\ entry = "query" /\ pc = "red_flags_checked"
    /\ ~result.is_emergency
    /\ work' = work \cup {"sanitizer"}
    /\ \/ pc' = "respond" /\ UNCHANGED response
       \/ pc' = "closed" /\ response' = "ERROR"
       \/ pc' = "closed" /\ response' = "500"
    /\ UNCHANGED <<backend_vars, gate_vars, entry, sanitized_prompt, council_vars>>

\* Step 5: the conservative recommendations
QueryRespond ==
    /\ entry = "query" /\ pc = "respond"
    /\ response' = "SUCCESS"
    /\ pc' = "closed"
    /\ UNCHANGED <<backend_vars, gate_vars, entry, sanitized_prompt, work, council_vars>>

\* ---- LocalPredictionPipeline.process_query (src/ml/pipeline.py) ----

PipelineEvaluate ==
    /\ entry = "process_query" /\ pc = "start"
    /\ result' = evaluate(symptoms, vitals)
    /\ pc' = "red_flags_checked"
    /\ UNCHANGED <<backend_vars, symptoms, vitals, entry, sanitized_prompt, response, work,
                   council_vars>>

\* an emergency is logged and answered at once
PipelineEmergency ==
    /\ entry = "process_query" /\ pc = "red_flags_checked"
    /\ result.is_emergency
    /\ work' = work \cup {"store_query"}
    /\ response' = "EMERGENCY"
    /\ pc' = "closed"
    /\ UNCHANGED <<backend_vars, gate_vars, entry, sanitized_prompt, council_vars>>

\* Steps 2 to 4: similar cases are searched, and with patient data on file
\* the ML model predicts
PipelinePredict ==
    /\ entry = "process_query" /\ pc = "red_flags_checked"
    /\ ~result.is_emergency
    /\ \E patient_on_file \in BOOLEAN :
           work' = work \cup {"vector_search"}
                        \cup (IF patient_on_file
                              THEN {"feature_extractor", "ml_model"} ELSE {})
    /\ pc' = "respond"
    /\ UNCHANGED <<backend_vars, gate_vars, entry, sanitized_prompt, response, council_vars>>

\* Steps 5 and 6: the query is stored and answered
PipelineRespond ==
    /\ entry = "process_query" /\ pc = "respond"
    /\ work' = work \cup {"store_query"}
    /\ response' = "SUCCESS"
    /\ pc' = "closed"
    /\ UNCHANGED <<backend_vars, gate_vars, entry, sanitized_prompt, council_vars>>

\* ---- POST /api/council (src/backend/main.py) ----

\* the handler: a blank prompt is refused, any other prompt is streamed
CouncilRequest ==
    /\ entry = "council" /\ pc = "start"
    /\ IF strip(sanitized_prompt) = <<>>
       THEN response' = "400" /\ pc' = "closed"
       ELSE response' = "stream" /\ pc' = GENERATOR_STEPS[1]
    /\ UNCHANGED <<backend_vars, gate_vars, entry, sanitized_prompt, work, council_vars>>

\* an exception leaves the try block at `step`
Throw(step, e) ==
    /\ events' = on_exception(events, e)
    /\ raised' = step
    /\ pc' = "closed"

\* pre-stage: the local classifier
Classify ==
    /\ entry = "council" /\ pc = "classification"
    /\ work' = work \cup {"classifier"}
    /\ \/ /\ events' = Append(events, StageEvent("classification", "complete",
                                                 [category |-> "classified"]))
          /\ pc' = after("classification")
          /\ UNCHANGED raised
       \/ Throw("classification", "predict failed")
    /\ UNCHANGED <<backend_vars, gate_vars, entry, sanitized_prompt, response, calls,
                   completion, rag_results, divergence, convergence,
                   synthesis, store>>

\* pre-stage: RAG retrieval with top_k = 3
RagRetrieve ==
    /\ entry = "council" /\ pc = "rag_retrieval"
    /\ work' = work \cup {"rag"}
    /\ \/ \E found \in {0, 3} :
              /\ rag_results' = found
              /\ events' = Append(events, StageEvent("rag_retrieval", "complete",
                                                     [documents_found |-> found]))
              /\ pc' = after("rag_retrieval")
              /\ UNCHANGED raised
       \/ Throw("rag_retrieval", "retrieve failed") /\ UNCHANGED rag_results
    /\ UNCHANGED <<backend_vars, gate_vars, entry, sanitized_prompt, response, calls,
                   completion, divergence, convergence, synthesis, store>>

\* `yield ... 'status': 'running'` of a stage
EmitRunning(step, stage) ==
    /\ entry = "council" /\ pc = step
    /\ events' = Append(events, RunningEvent(stage))
    /\ pc' = after(step)
    /\ UNCHANGED <<backend_vars, gate_vars, entry, sanitized_prompt, response, work, calls,
                   completion, rag_results, divergence, convergence,
                   synthesis, raised, store>>

DivergenceRunning  == EmitRunning("divergence_running", "divergence")
ConvergenceRunning == EmitRunning("convergence_running", "convergence")
SynthesisRunning   == EmitRunning("synthesis_running", "synthesis")

\* query_council_parallel: one call per task is started
FanOut ==
    /\ entry = "council" /\ pc = "divergence"
    /\ calls' = [r \in Roles |->
                    IF r \in Range(task_names) THEN Pending ELSE calls[r]]
    /\ work' = work \cup { "llm:" \o r : r \in Range(task_names) }
    /\ pc' = after("divergence")
    /\ UNCHANGED <<backend_vars, gate_vars, entry, sanitized_prompt, response, events,
                   completion, rag_results, divergence, convergence,
                   synthesis, raised, store>>

\* query_groq of one diverger ends: the provider answers or the call raises
MemberCallEnds ==
    /\ entry = "council" /\ pc = "gather"
    /\ \E r \in Range(task_names) :
           /\ calls[r].state = "pending"
           /\ \E outcome \in MemberOutcomes(r) :
                  calls' = [calls EXCEPT ![r] = Completed(outcome)]
           /\ completion' = Append(completion, r)
    /\ UNCHANGED <<backend_vars, gate_vars, request_vars, events, rag_results, divergence,
                   convergence, synthesis, raised, store>>

\* the gather returns; run_divergence parses; divergence complete is emitted
DivergenceComplete ==
    /\ entry = "council" /\ pc = "gather"
    /\ \A r \in Range(task_names) : calls[r].state = "done"
    /\ divergence' = run_divergence(calls, completion)
    /\ events' = Append(events, StageEvent("divergence", "complete", divergence'))
    /\ pc' = after("gather")
    /\ UNCHANGED <<backend_vars, gate_vars, entry, sanitized_prompt, response, work, calls,
                   completion, rag_results, convergence, synthesis, raised,
                   store>>

\* run_convergence up to its await: the summaries are built (which may
\* raise) and the reviewer is called
ReviewerCall ==
    /\ entry = "council" /\ pc = "convergence"
    /\ IF summary_raises(divergence)
       THEN /\ Throw("convergence", "TypeError")
            /\ UNCHANGED <<calls, work>>
       ELSE /\ calls' = [calls EXCEPT !["reviewer"] = Pending]
            /\ work' = work \cup { "llm:reviewer" }
            /\ pc' = after("convergence")
            /\ UNCHANGED <<events, raised>>
    /\ UNCHANGED <<backend_vars, gate_vars, entry, sanitized_prompt, response, completion,
                   rag_results, divergence, convergence, synthesis, store>>

\* the reviewer's call ends: an exception of query_groq leaves
\* run_convergence; an answer is parsed and convergence complete is emitted
ReviewerCallEnds ==
    /\ entry = "council" /\ pc = "await_reviewer"
    /\ \E outcome \in ReviewerOutcomes :
           /\ calls' = [calls EXCEPT !["reviewer"] = Completed(outcome)]
           /\ IF outcome.raised
              THEN /\ Throw("convergence", outcome.error)
                   /\ UNCHANGED convergence
              ELSE /\ convergence' = run_convergence(divergence, outcome.text)
                   /\ events' = Append(events,
                                  StageEvent("convergence", "complete",
                                             convergence'.peer_review))
                   /\ pc' = after("await_reviewer")
                   /\ UNCHANGED raised
    /\ UNCHANGED <<backend_vars, gate_vars, entry, sanitized_prompt, response, work,
                   completion, rag_results, divergence, synthesis, store>>

\* run_synthesis up to its await: the top response is looked up (which may
\* raise) and the chairman is called
ChairmanCall ==
    /\ entry = "council" /\ pc = "synthesis"
    /\ IF top_response(convergence).raised
       THEN /\ Throw("synthesis", "TypeError")
            /\ UNCHANGED <<calls, work>>
       ELSE /\ calls' = [calls EXCEPT !["chairman"] = Pending]
            /\ work' = work \cup { "llm:chairman" }
            /\ pc' = after("synthesis")
            /\ UNCHANGED <<events, raised>>
    /\ UNCHANGED <<backend_vars, gate_vars, entry, sanitized_prompt, response, completion,
                   rag_results, divergence, convergence, synthesis, store>>

\* the chairman's call ends
ChairmanCallEnds ==
    /\ entry = "council" /\ pc = "await_chairman"
    /\ \E outcome \in ChairmanOutcomes :
           /\ calls' = [calls EXCEPT !["chairman"] = Completed(outcome)]
           /\ IF outcome.raised
              THEN /\ Throw("synthesis", outcome.error)
                   /\ UNCHANGED synthesis
              ELSE /\ synthesis' = _safe_parse_json(outcome.text)
                   /\ events' = Append(events,
                                  StageEvent("synthesis", "complete", synthesis'))
                   /\ pc' = after("await_chairman")
                   /\ UNCHANGED raised
    /\ UNCHANGED <<backend_vars, gate_vars, entry, sanitized_prompt, response, work,
                   completion, rag_results, divergence, convergence, store>>

\* post-stage: the hospital-store write, whose exception is printed and
\* dropped
StoreConsultation ==
    /\ entry = "council" /\ pc = "store"
    /\ \E outcome \in StoreOutcomes :
           /\ store' = post_stage(synthesis, outcome).store
           /\ IF post_stage(synthesis, outcome).raised
              THEN Throw("store", "sqlite3.OperationalError")
              ELSE /\ pc' = after("store")
                   /\ UNCHANGED <<events, raised>>
    /\ UNCHANGED <<backend_vars, gate_vars, entry, sanitized_prompt, response, work,
                   calls, completion, rag_results, divergence, convergence,
                   synthesis>>

\* `yield done`, and the generator returns
EmitDone ==
    /\ entry = "council" /\ pc = "done"
    /\ events' = Append(events, DoneEvent)
    /\ pc' = after("done")
    /\ UNCHANGED <<backend_vars, gate_vars, entry, sanitized_prompt, response, work, calls,
                   completion, rag_results, divergence, convergence,
                   synthesis, raised, store>>

\* the steps of POST /api/council and of its event generator
CouncilSteps ==
    \/ CouncilRequest \/ Classify \/ RagRetrieve
    \/ DivergenceRunning \/ FanOut \/ MemberCallEnds \/ DivergenceComplete
    \/ ConvergenceRunning \/ ReviewerCall \/ ReviewerCallEnds
    \/ SynthesisRunning \/ ChairmanCall \/ ChairmanCallEnds
    \/ StoreConsultation \/ EmitDone

ServiceNext ==
    \/ QueryEvaluate \/ QueryEmergency \/ QuerySanitize \/ QueryRespond
    \/ PipelineEvaluate \/ PipelineEmergency \/ PipelinePredict
    \/ PipelineRespond
    \/ CouncilSteps

Spec == ServiceInit /\ [][ServiceNext]_vars

\* the same with progress for a council request: the event loop runs the
\* generator whenever it can take a step, and every call to the provider
\* ends, by an answer or by an exception of the SDK (its deadline included)
SpecLive == ServiceInit /\ [][ServiceNext]_vars /\ WF_vars(CouncilSteps)

(***************************************************************************)
(* The gates on vitals maps of any content: RedFlagEngine.evaluate called  *)
(* directly (as process_query does) and POST /api/triage.                  *)
(***************************************************************************)
AnyVitalsInit ==
    /\ entry \in {"evaluate", "triage"}
    /\ \/ /\ entry = "evaluate"
          /\ symptoms \in RequestSymptomLists
          /\ sanitized_prompt = <<>>
       \/ /\ entry = "triage"
          /\ symptoms = <<>>
          /\ sanitized_prompt \in RequestPrompts
    /\ vitals \in AnyVitalDicts
    /\ result = NoResult
    /\ pc = "start"
    /\ response = "none"
    /\ work = {}
    /\ NoCouncil
    /\ NoBackend

\* RedFlagEngine.evaluate(symptoms, vitals): a result, or the TypeError of
\* the comparison
EvaluateAny ==
    /\ entry = "evaluate" /\ pc = "start"
    /\ IF evaluate_raises(symptoms, vitals)
       THEN response' = "TypeError" /\ UNCHANGED result
       ELSE response' = "returned" /\ result' = evaluate(symptoms, vitals)
    /\ pc' = "closed"
    /\ UNCHANGED <<backend_vars, symptoms, vitals, entry, sanitized_prompt, work, council_vars>>

\* POST /api/triage: the handler returns what evaluate returns; an exception
\* becomes the HTTP 500 answer
Triage ==
    /\ entry = "triage" /\ pc = "start"
    /\ LET verdict == red_flag_evaluate(sanitized_prompt, vitals)
       IN  IF verdict.raised
           THEN response' = "500" /\ UNCHANGED result
           ELSE /\ response' = "200"
                /\ result' = [is_emergency |-> verdict.is_emergency,
                              reason |-> verdict.reason,
                              action |-> IF verdict.is_emergency
                                         THEN "CALL_EMERGENCY_SERVICES"
                                         ELSE "PROCEED_TO_COUNCIL"]
    /\ pc' = "closed"
    /\ UNCHANGED <<backend_vars, symptoms, vitals, entry, sanitized_prompt, work, council_vars>>

AnyVitalsNext == EvaluateAny \/ Triage

SpecAnyVitals == AnyVitalsInit /\ [][AnyVitalsNext]_vars

(***************************************************************************)
(* The federated aggregator (src/backend/federated/aggregator.py) behind   *)
(* POST /api/federated/update.  The DP-processed vector a request leaves   *)
(* in the buffer carries random noise; it is named by the number of the    *)
(* request it came from, and a mean of vectors by the set it averages.     *)
(***************************************************************************)
MaxRequests == 6
MaxRestarts == 1

ADAPTER_DIM == 128

\* federated_update calls aggregate(min_clients=3)
MIN_CLIENTS == 3

\* gradient vectors a client sends: of the adapter's dimension, and of
\* dimension 3
Gradients(n) == [i \in 1..n |-> 0]
GradientInputs == { Gradients(ADAPTER_DIM), Gradients(3) }

\* mutant: a vector that is too short is let through
validate_update_at_most(update, expected_dim) == Len(update) <= expected_dim

\* validate_update; the request schema has made the update a list
validate_update(update, expected_dim) == Len(update) = expected_dim

\* mutant: the handler runs in a worker thread, beside the handlers of
\* other requests
event_loop_always_free(current) == TRUE

\* federated_update is a coroutine without an await: the event loop starts
\* a handler only when no other handler is running
event_loop_free(current) == current = 0

\* np.mean(all_updates, axis=0), by the updates it averages
np_mean(all_updates) == { all_updates[i].update : i \in 1..Len(all_updates) }

\* mutant: only the oldest update leaves the buffer
clear_oldest(pending) == Tail(pending)

\* _pending_updates.clear()
clear(pending) == <<>>

\* the dict `metadata`
adapter_metadata(version, pending, all_updates) ==
    [version |-> version,
     num_clients |-> Len(pending),
     adapter |-> np_mean(all_updates)]

\* open(version_path, "w") and json.dump: the file is created or replaced
write_file(files, version, content) ==
    [v \in DOMAIN files \cup {version} |->
        IF v = version THEN content ELSE files[v]]

NoMetadata == [version |-> 0, num_clients |-> 0, adapter |-> {}]

\* a request in its handler: its body, the statement it is at, what
\* receive_update returned, the locals of aggregate, the HTTP status
NewRequest(gradients) ==
    [gradients |-> gradients, pc |-> "receive", status |-> "",
     pending_count |-> 0, at_call |-> [version |-> 0, pending |-> 0],
     all_updates |-> <<>>, metadata |-> NoMetadata,
     aggregation |-> NoMetadata, response |-> ""]

FederatedInit ==
    /\ symptoms = <<>>
    /\ vitals = <<>>
    /\ result = NoResult
    /\ entry = "federated_update"
    /\ sanitized_prompt = <<>>
    /\ pc = "start"
    /\ response = "none"
    /\ work = {}
    /\ NoCouncil
    /\ NoBackend

front_vars == <<gate_vars, request_vars, council_vars, pure_vars, writers>>
other_vars == <<front_vars, report_vars>>

\* a request arrives and its handler starts: receive_update validates and
\* buffers; a wrong dimension is answered 400
ReceiveUpdate ==
    /\ Len(requests) < MaxRequests
    /\ event_loop_free(running)
    /\ \E gradients \in GradientInputs :
           LET r == Len(requests) + 1
               request == NewRequest(gradients)
           IN  IF ~validate_update(gradients, ADAPTER_DIM)
               THEN /\ requests' = Append(requests,
                            [request EXCEPT !.status = "error", !.pc = "done",
                                            !.response = "400"])
                    /\ UNCHANGED <<_pending_updates, running>>
               ELSE /\ _pending_updates' =
                            Append(_pending_updates, [client_id |-> r, update |-> r])
                    /\ requests' = Append(requests,
                            [request EXCEPT !.status = "accepted",
                                            !.pending_count = Len(_pending_updates'),
                                            !.pc = "aggregate"])
                    /\ running' = r
    /\ UNCHANGED <<_current_version, adapter_store, write_log, restarts, other_vars>>

\* the contribution is logged (a failure is printed and dropped) and
\* aggregate is called: below the threshold it returns None, else the
\* pending updates are averaged
AggregateCall ==
    \E r \in 1..Len(requests) :
        /\ requests[r].pc = "aggregate"
        /\ LET at_call == [version |-> _current_version,
                           pending |-> Len(_pending_updates)]
           IN  IF Len(_pending_updates) < MIN_CLIENTS
               THEN /\ requests' = [requests EXCEPT ![r].pc = "done",
                                                    ![r].at_call = at_call,
                                                    ![r].response = "200"]
                    /\ running' = 0
               ELSE /\ requests' = [requests EXCEPT ![r].pc = "increment",
                                                    ![r].at_call = at_call,
                                                    ![r].all_updates = _pending_updates]
                    /\ running' = r
        /\ UNCHANGED <<_pending_updates, _current_version, adapter_store,
                       write_log, restarts, other_vars>>

\* _current_version += 1, and the metadata is built
IncrementVersion ==
    \E r \in 1..Len(requests) :
        /\ requests[r].pc = "increment"
        /\ _current_version' = _current_version + 1
        /\ requests' = [requests EXCEPT
               ![r].pc = "write",
               ![r].metadata = adapter_metadata(_current_version',
                                   _pending_updates, requests[r].all_updates)]
        /\ running' = r
        /\ UNCHANGED <<_pending_updates, adapter_store, write_log, restarts,
                       other_vars>>

\* adapter_v<N>.json is written, or open raises and the exception leaves
\* aggregate and the handler (HTTP 500)
WriteAdapter ==
    \E r \in 1..Len(requests) :
        /\ requests[r].pc = "write"
        /\ \/ /\ adapter_store' = write_file(adapter_store,
                      requests[r].metadata.version, requests[r].metadata)
              /\ write_log' = Append(write_log, requests[r].metadata.version)
              /\ requests' = [requests EXCEPT ![r].pc = "clear"]
              /\ running' = r
           \/ /\ requests' = [requests EXCEPT ![r].pc = "done",
                                              ![r].response = "500"]
              /\ running' = 0
              /\ UNCHANGED <<adapter_store, write_log>>
        /\ UNCHANGED <<_pending_updates, _current_version, restarts, other_vars>>

\* _pending_updates.clear(), and the result is returned
ClearAndReturn ==
    \E r \in 1..Len(requests) :
        /\ requests[r].pc = "clear"
        /\ _pending_updates' = clear(_pending_updates)
        /\ requests' = [requests EXCEPT
               ![r].pc = "done",
               ![r].response = "200",
               ![r].aggregation = [version |-> _current_version,
                                   num_clients |-> requests[r].metadata.num_clients,
                                   adapter |-> requests[r].metadata.adapter]]
        /\ running' = 0
        /\ UNCHANGED <<_current_version, adapter_store, write_log, restarts,
                       other_vars>>

\* the process stops and starts again: the module's globals are set anew,
\* the handler that was running is gone, the files stay
Restart ==
    /\ restarts < MaxRestarts
    /\ requests # <<>>
    /\ restarts' = restarts + 1
    /\ _pending_updates' = <<>>
    /\ _current_version' = 0
    /\ requests' = [r \in 1..Len(requests) |->
                       IF requests[r].pc = "done" THEN requests[r]
                       ELSE [requests[r] EXCEPT !.pc = "aborted"]]
    /\ running' = 0
    /\ UNCHANGED <<adapter_store, write_log, other_vars>>

FederatedNext ==
    \/ ReceiveUpdate \/ AggregateCall \/ IncrementVersion \/ WriteAdapter
    \/ ClearAndReturn \/ Restart

SpecFederated == FederatedInit /\ [][FederatedNext]_vars

(***************************************************************************)
(* The report store (src/backend/rag/report_processor.py) and the RAG      *)
(* engine singleton (src/backend/rag/engine.py) behind the report          *)
(* endpoints.  A report id is the number of the report (uuid4 draws a      *)
(* fresh one); the repository ships no knowledge-base file.                *)
(***************************************************************************)
MaxReports == 3

\* uploaded files: the name with its suffix, the bytes by what they decode
\* to (as UTF-8 where they are valid UTF-8, as Latin-1 always), their size:
\* a text file, a picture named .PDF, a PDF of scanned pages without text,
\* Latin-1 notes without a suffix, an empty file
Uploads ==
    { [filename |-> [stem |-> "labs", suffix |-> <<".","t","x","t">>],
       file_bytes |-> [format |-> "utf-8", text |-> "hb 9.1 low",
                       latin1 |-> "hb 9.1 low", size |-> 10]],
      [filename |-> [stem |-> "scan", suffix |-> <<".","P","D","F">>],
       file_bytes |-> [format |-> "jpeg", text |-> "",
                       latin1 |-> "JFIF", size |-> 4]],
      [filename |-> [stem |-> "xray", suffix |-> <<".","p","d","f">>],
       file_bytes |-> [format |-> "pdf", text |-> "",
                       latin1 |-> "%PDF-1.4", size |-> 8]],
      [filename |-> [stem |-> "notes", suffix |-> <<>>],
       file_bytes |-> [format |-> "latin-1", text |-> "",
                       latin1 |-> "cafe au lait", size |-> 12]],
      [filename |-> [stem |-> "empty", suffix |-> <<".","t","x","t">>],
       file_bytes |-> [format |-> "utf-8", text |-> "", latin1 |-> "", size |-> 0]] }

extract_text_from_pdf(file_bytes) ==
    IF file_bytes.format = "pdf" THEN file_bytes.text
    ELSE "[PDF extraction error]"

extract_text_from_docx(file_bytes) ==
    IF file_bytes.format = "docx" THEN file_bytes.text
    ELSE "[DOCX extraction error]"

\* decode("utf-8"), and decode("latin-1") on UnicodeDecodeError
extract_text_from_txt(file_bytes) ==
    IF file_bytes.format = "utf-8" THEN file_bytes.text ELSE file_bytes.latin1

\* the branch of process_report on ext = Path(filename).suffix.lower()
extract_text(ext, file_bytes) ==
    CASE ext = <<".","p","d","f">> -> extract_text_from_pdf(file_bytes)
      [] ext \in { <<".","d","o","c","x">>, <<".","d","o","c">> } ->
             extract_text_from_docx(file_bytes)
      [] OTHER -> extract_text_from_txt(file_bytes)

\* get_report_text: the text of the first record with the id, or None
get_report_text(reports, report_id) ==
    LET hits == { i \in 1..Len(reports) : reports[i].id = report_id }
    IN  IF hits = {} THEN <<>>
        ELSE << reports[CHOOSE i \in hits : \A j \in hits : i <= j].extracted_text >>

\* mutant: the filter of delete_report also drops the later reports
kept_if_older(report, report_id) == report.id < report_id

\* `r["id"] != report_id`
kept(report, report_id) == report.id # report_id

\* REPORTS_DIR.glob(f"{report_id}.*"): the names that start with the id and
\* a dot
glob_report(files, report_id) ==
    { name \in files : name.id = report_id /\ name.ext # <<>> /\ name.ext[1] = "." }

\* load_knowledge_base (no file) and load_user_reports
load_documents(reports) ==
    [i \in 1..Len(reports) |->
        [id |-> reports[i].id, topic |-> reports[i].filename,
         content |-> reports[i].extracted_text]]

\* build_index on an engine: documents are loaded when it has none; with
\* none to index it returns; else the index is built, or TfidfVectorizer or
\* faiss raises and the engine keeps its documents without an index
build_index(engine, reports, outcome) ==
    LET documents == IF engine.documents = <<>> THEN load_documents(reports)
                     ELSE engine.documents
    IN  IF documents = <<>> THEN [engine |-> engine, raised |-> FALSE]
        ELSE IF outcome = "built"
        THEN [engine |-> [engine EXCEPT !.documents = documents,
                                         !._is_built = TRUE,
                                         !.index = documents],
              raised |-> FALSE]
        ELSE [engine |-> [engine EXCEPT !.documents = documents],
              raised |-> TRUE]

\* rebuild_rag_engine: _engine = RAGEngine() and then _engine.build_index()
rebuild_rag_engine(reports, outcome) == build_index(NewEngine, reports, outcome)

BuildOutcomes == {"built", "raise"}

ReportsInit ==
    /\ symptoms = <<>>
    /\ vitals = <<>>
    /\ result = NoResult
    /\ entry = "reports"
    /\ sanitized_prompt = <<>>
    /\ pc = "start"
    /\ response = "none"
    /\ work = {}
    /\ NoCouncil
    /\ NoBackend

\* POST /api/reports/upload after the file is read: an empty file is
\* refused; process_report stores it; the engine is rebuilt
UploadReport ==
    /\ reports_made < MaxReports
    /\ \E upload \in Uploads, outcome \in BuildOutcomes :
           IF upload.file_bytes.size = 0
           THEN /\ last' = [NoCall EXCEPT !.op = "upload", !.response = "400"]
                /\ UNCHANGED <<reports_index, raw_files, reports_made, _engine>>
           ELSE LET ext == lower(upload.filename.suffix)
                    extracted_text == extract_text(ext, upload.file_bytes)
                    report_id == reports_made + 1
                    report == [id |-> report_id, filename |-> upload.filename,
                               file_type |-> ext,
                               extracted_text |-> extracted_text]
                    rebuilt == rebuild_rag_engine(reports_index', outcome)
                IN  /\ reports_made' = report_id
                    /\ raw_files' = raw_files \cup {[id |-> report_id, ext |-> ext]}
                    /\ reports_index' = Append(reports_index, report)
                    /\ _engine' = rebuilt.engine
                    /\ last' = [NoCall EXCEPT
                                   !.op = "upload", !.id = report_id,
                                   !.returned = <<extracted_text>>,
                                   !.response = IF rebuilt.raised THEN "500"
                                                ELSE "200"]
    /\ UNCHANGED <<front_vars, federated_vars>>

\* DELETE /api/reports/{report_id}: delete_report, 404 when it returns
\* False, else the engine is rebuilt
RemoveReport ==
    /\ \E report_id \in 1..MaxReports, outcome \in BuildOutcomes :
           LET updated == SelectSeq(reports_index,
                                    LAMBDA report : kept(report, report_id))
           IN  IF Len(updated) = Len(reports_index)
               THEN /\ last' = [NoCall EXCEPT !.op = "delete", !.id = report_id,
                                              !.returned = <<"False">>,
                                              !.response = "404"]
                    /\ UNCHANGED <<reports_index, raw_files, _engine>>
               ELSE LET rebuilt == rebuild_rag_engine(updated, outcome)
                    IN  /\ reports_index' = updated
                        /\ raw_files' = raw_files \ glob_report(raw_files, report_id)
                        /\ _engine' = rebuilt.engine
                        /\ last' = [NoCall EXCEPT
                                       !.op = "delete", !.id = report_id,
                                       !.returned = <<"True">>,
                                       !.response = IF rebuilt.raised THEN "500"
                                                    ELSE "200"]
    /\ UNCHANGED <<reports_made, front_vars, federated_vars>>

\* get_report_text as POST /api/reports/analyze/{report_id} calls it: None
\* is answered 404
GetReportText ==
    /\ \E report_id \in 1..MaxReports :
           LET report_text == get_report_text(reports_index, report_id)
           IN  last' = [NoCall EXCEPT
                           !.op = "get_text", !.id = report_id,
                           !.returned = report_text,
                           !.response = IF report_text \in {<<>>, <<"">>}
                                        THEN "404" ELSE "200"]
    /\ UNCHANGED <<reports_index, raw_files, reports_made, _engine,
                   front_vars, federated_vars>>

\* a query: get_rag_engine() makes and builds the engine on first use, and
\* retrieve builds an engine that is not built before it searches
Retrieve ==
    /\ \E outcome \in BuildOutcomes :
           LET got == IF _engine.exists
                      THEN [engine |-> _engine, raised |-> FALSE]
                      ELSE build_index(NewEngine, reports_index, outcome)
               searched == IF got.raised \/ got.engine._is_built THEN got
                           ELSE build_index(got.engine, reports_index, outcome)
           IN  /\ _engine' = searched.engine
               /\ last' = [NoCall EXCEPT
                              !.op = "retrieve",
                              !.response = IF searched.raised THEN "error"
                                           ELSE IF searched.engine._is_built
                                           THEN "results" ELSE "[]"]
    /\ UNCHANGED <<reports_index, raw_files, reports_made, front_vars,
                   federated_vars>>

ReportsNext == UploadReport \/ RemoveReport \/ GetReportText \/ Retrieve

SpecReports == ReportsInit /\ [][ReportsNext]_vars

(***************************************************************************)
(* The entry points and the council stream: what the claims speak of.      *)
(***************************************************************************)
\* the work that lies downstream of the gate (the audit row that
\* process_query stores for every query is not counted)
Downstream ==
    {"sanitizer", "vector_search", "feature_extractor", "ml_model",
     "classifier", "rag"} \cup { "llm:" \o r : r \in Roles }

\* the gate's verdict on the input of the request: for a council prompt the
\* verdict both gates agree on
GateSaysEmergency ==
    IF entry = "council"
    THEN /\ check_symptom_text(sanitized_prompt).flag
         /\ evaluate(<<sanitized_prompt>>, <<>>).is_emergency
    ELSE evaluate(symptoms, vitals).is_emergency

\* C1: for a query whose input the Red-Flag Gate judges an emergency, no
\* downstream work is ever started (no sanitizer, classifier, RAG or ML step
\* and no council LLM call), on /query, on process_query and on /api/council.
C1_EmergencyShortCircuits ==
    GateSaysEmergency => work \cap Downstream = {}

\* the part of C1 that the code keeps: /query and process_query
C1_LocalEntryPointsShortCircuit ==
    (entry # "council" /\ GateSaysEmergency) => work \cap Downstream = {}

\* the kind of an event: its stage and, where it has one, its status
Kind(ev) == <<ev.stage, IF "status" \in DOMAIN ev THEN ev.status ELSE "">>

Kinds(evs) == [i \in 1..Len(evs) |-> Kind(evs[i])]

PROTOCOL_ORDER ==
    << <<"classification", "complete">>, <<"rag_retrieval", "complete">>,
       <<"divergence", "running">>, <<"divergence", "complete">>,
       <<"convergence", "running">>, <<"convergence", "complete">>,
       <<"synthesis", "running">>, <<"synthesis", "complete">>,
       <<"done", "">> >>

IsPrefix(s, t) == Len(s) <= Len(t) /\ \A i \in 1..Len(s) : s[i] = t[i]

\* C2: the events emitted within one council request form a prefix of the
\* protocol order, optionally cut short by one error event; no stage event
\* is out of order or repeated.
C2_ProtocolOrder ==
    LET k == Kinds(events)
        n == Len(k)
    IN  \/ IsPrefix(k, PROTOCOL_ORDER)
        \/ /\ n > 0
           /\ k[n] = <<"error", "">>
           /\ IsPrefix(SubSeq(k, 1, n - 1), PROTOCOL_ORDER)

\* C2 witness: a stream that ran the whole protocol although a diverger's
\* answer was prose
C2_Witness ==
    /\ Kinds(events) = PROTOCOL_ORDER
    /\ calls["member_b"].text = PROSE

\* C3: done is emitted at most once, only after synthesis complete, and no
\* event of any kind follows it.
C3_DoneOnceAndLast ==
    \A i \in 1..Len(events) :
        events[i].stage = "done" =>
            /\ i = Len(events)
            /\ \E j \in 1..(i - 1) : Kind(events[j]) = <<"synthesis", "complete">>

\* C3 witness: the generator has returned after done, the store write having
\* failed
C3_Witness ==
    /\ pc = "closed"
    /\ store = "failed"
    /\ events # <<>>
    /\ events[Len(events)] = DoneEvent

\* C4: when a step of the council pipeline raises, the stream has exactly
\* one error event, that event is its last, and it has no done event.
C4_ErrorTerminates ==
    raised # "none" =>
        LET n == Len(events)
        IN  /\ n > 0
            /\ events[n].stage = "error"
            /\ \A i \in 1..(n - 1) : events[i].stage \notin {"error", "done"}

\* C4 witness: convergence raised while it summarised the divergers'
\* answers, before the reviewer was called
C4_Witness ==
    /\ raised = "convergence"
    /\ calls["reviewer"].state = "idle"
    /\ Len(events) = 6
    /\ pc = "closed"

\* C5: the failure of an LLM transport call (a diverger's, the reviewer's
\* or the chairman's) never produces an error event.
C5_TransportFailureAbsorbed ==
    \A r \in Roles :
        calls[r].raised =>
            \A i \in 1..Len(events) :
                events[i].stage = "error" => events[i].message # calls[r].error

\* the part of C5 that the code keeps: a diverger's failure is absorbed
C5_DivergerFailureAbsorbed ==
    \A r \in Range(task_names) :
        calls[r].raised =>
            \A i \in 1..Len(events) :
                events[i].stage = "error" => events[i].message # calls[r].error

\* the empty parse
EMPTY_RECORD ==
    [differentials |-> JList(<<>>), next_steps |-> JList(<<>>),
     confidence |-> JNum("0"), red_flag |-> JBool("false")]

\* what a diverger's entry has to hold, given how its call ended
OwnRecord(name, call) ==
    CASE call.raised -> EMPTY_RECORD
      [] call.text = PROSE -> [raw |-> PROSE]
      [] call.text = NUMBER_DIFFERENTIALS -> [differentials |-> JNum("5")]
      [] OTHER ->
            [differentials |->
                 JList(<< CASE name = "member_a" -> "dx_a"
                            [] name = "member_b" -> "dx_b"
                            [] OTHER -> "dx_c" >>),
             confidence |-> JNum("0.8")]

\* C6: whatever the order of completion and whichever diverger calls fail,
\* the map of divergence complete has exactly one entry per diverger
\* (member_a, member_b, member_c), keyed by the member's id and holding that
\* member's own response, the empty record for a failed member; reviewer and
\* chairman are never keys.
C6_DivergenceMap ==
    \A i \in 1..Len(events) :
        Kind(events[i]) = <<"divergence", "complete">> =>
            LET map == events[i].data
            IN  /\ Len(map) = 3
                /\ { map[k].name : k \in 1..Len(map) }
                       = {"member_a", "member_b", "member_c"}
                /\ \A k \in 1..Len(map) :
                       /\ map[k].name \notin {"reviewer", "chairman"}
                       /\ map[k].parsed = OwnRecord(map[k].name, calls[map[k].name])

\* C6 witness: member_c completed first, member_b failed, member_a answered
C6_Witness ==
    /\ \E i \in 1..Len(events) : Kind(events[i]) = <<"divergence", "complete">>
    /\ completion = <<"member_c", "member_a", "member_b">>
    /\ calls["member_b"].raised
    /\ calls["member_a"].text = MemberAnswer("member_a")
    /\ calls["member_c"].text = PROSE

(***************************************************************************)
(* The Red-Flag Gate: what the claims speak of, stated on the inputs and   *)
(* not through the engine's own checks.                                    *)
(***************************************************************************)
Evaluated == result.urgency_level # "unevaluated"

\* every phrase of the rule tables
AllPhrases ==
    Range(IMMEDIATE_RED_FLAGS) \cup Range(URGENT_FLAGS)
    \cup UNION { Range(COMBINATION_RULES[i].symptoms) :
                    i \in 1..Len(COMBINATION_RULES) }

\* the phrases a symptom of the pool contains, case-insensitively
PhrasesIn ==
    [s \in SymptomPool |-> { p \in AllPhrases : Contains(p, lower(s)) }]

\* some symptom contains the phrase, case-insensitively
Mentions(symptom_list, phrase) ==
    \E k \in 1..Len(symptom_list) : phrase \in PhrasesIn[symptom_list[k]]

ImmediatePhrasesIn(symptom_list) ==
    { flag \in Range(IMMEDIATE_RED_FLAGS) : Mentions(symptom_list, flag) }

UrgentPhrasesIn(symptom_list) ==
    { flag \in Range(URGENT_FLAGS) : Mentions(symptom_list, flag) }

\* at least threshold-many distinct target phrases are present
RuleFires(rule, symptom_list) ==
    Cardinality({ p \in Range(rule.symptoms) : Mentions(symptom_list, p) })
        >= rule.threshold

SomeRuleFires(symptom_list) ==
    \E i \in 1..Len(COMBINATION_RULES) : RuleFires(COMBINATION_RULES[i], symptom_list)

\* the value lies strictly outside the band of a vital of the table
StrictlyOutside(item) ==
    /\ item.name \in DOMAIN VITAL_THRESHOLDS
    /\ \/ item.value < VITAL_THRESHOLDS[item.name].min
       \/ item.value > VITAL_THRESHOLDS[item.name].max

ImmediateVitalFires(vital_items) ==
    \E i \in 1..Len(vital_items) :
        /\ StrictlyOutside(vital_items[i])
        /\ VITAL_THRESHOLDS[vital_items[i].name].level = "immediate"

\* the vital is among the triggered rules, as name=value
Flagged(item) ==
    (item.name \o <<"=">> \o str(item.value)) \in Range(result.triggered_rules)

\* C7: whenever some symptom contains an Immediate phrase (in any letter
\* case), the verdict is immediate with is_emergency true and every
\* Immediate phrase present is among the triggered rules, whatever the
\* other symptoms and the vitals are.
C7_ImmediatePhraseIsImmediate ==
    (Evaluated /\ ImmediatePhrasesIn(symptoms) # {}) =>
        /\ result.urgency_level = "immediate"
        /\ result.is_emergency
        /\ ImmediatePhrasesIn(symptoms) \subseteq Range(result.triggered_rules)

\* C7 witness: an upper-case "SEVERE CHEST PAIN" among other symptoms and
\* vitals was evaluated and "severe chest pain" was triggered.
C7_Witness ==
    /\ Evaluated
    /\ Len(symptoms) = 2 /\ symptoms[2] = SEVERE_CHEST_PAIN_UPPER
    /\ vitals # <<>>
    /\ \E i \in 1..Len(result.triggered_rules) :
           result.triggered_rules[i] = SEVERE_CHEST_PAIN

\* C8: when an Immediate layer fires (keyword, combination rule, or a vital
\* of Immediate tier) the verdict is immediate, and the rationale is the
\* message of the first such layer in evaluation order, never an URGENT one.
C8_ImmediateSupersedesUrgent ==
    (Evaluated /\ (\/ ImmediatePhrasesIn(symptoms) # {}
                   \/ SomeRuleFires(symptoms)
                   \/ ImmediateVitalFires(vitals))) =>
        /\ result.urgency_level = "immediate"
        /\ result.is_emergency
        /\ result.rationale.level # "URGENT"
        /\ result.rationale =
              IF ImmediatePhrasesIn(symptoms) # {}
              THEN _check_immediate_flags(symptoms).msg
              ELSE IF SomeRuleFires(symptoms)
              THEN _check_combination_rules(symptoms).msg
              ELSE _check_vital_signs(vitals).msg

\* C8 witness: an Urgent keyword and an Urgent vital fired together with the
\* Immediate vital, and the verdict carries the vitals' rationale.
C8_Witness ==
    /\ Evaluated
    /\ UrgentPhrasesIn(symptoms) # {}
    /\ ImmediatePhrasesIn(symptoms) = {} /\ ~SomeRuleFires(symptoms)
    /\ \E i, j \in 1..Len(vitals) :
           /\ vitals[i].name = HEART_RATE /\ StrictlyOutside(vitals[i])
           /\ vitals[j].name = OXYGEN_SATURATION /\ StrictlyOutside(vitals[j])
    /\ result.urgency_level = "immediate"
    /\ result.rationale.level = "IMMEDIATE EMERGENCY"

\* C9: with no keyword and no combination rule firing, a vital is flagged
\* exactly when its value is strictly outside its band (a value at a bound
\* is not), and when exactly one vital is flagged the verdict's tier is that
\* vital's declared tier.
C9_VitalBands ==
    (/\ Evaluated
     /\ ImmediatePhrasesIn(symptoms) = {}
     /\ UrgentPhrasesIn(symptoms) = {}
     /\ ~SomeRuleFires(symptoms)) =>
        /\ \A i \in 1..Len(vitals) :
               Flagged(vitals[i]) <=> StrictlyOutside(vitals[i])
        /\ \A i \in 1..Len(vitals) :
               (/\ StrictlyOutside(vitals[i])
                /\ \A j \in 1..Len(vitals) : j # i => ~StrictlyOutside(vitals[j]))
               => result.urgency_level = VITAL_THRESHOLDS[vitals[i].name].level

\* C9 witness: oxygen saturation exactly at its minimum is not flagged while
\* a heart rate above its maximum is, and the verdict is urgent.
C9_Witness ==
    /\ Evaluated
    /\ symptoms = <<MILD_HEADACHE>>
    /\ \E i, j \in 1..Len(vitals) :
           /\ vitals[i] = [name |-> OXYGEN_SATURATION, value |-> 92]
           /\ ~Flagged(vitals[i])
           /\ vitals[j].name = HEART_RATE /\ Flagged(vitals[j])
    /\ result.urgency_level = "urgent"

\* C10: when no rule fires at any tier (for the empty symptom list too) the
\* verdict is routine, is_emergency is false and no rule is triggered.
C10_NoRuleIsRoutine ==
    (/\ Evaluated
     /\ ImmediatePhrasesIn(symptoms) = {}
     /\ UrgentPhrasesIn(symptoms) = {}
     /\ ~SomeRuleFires(symptoms)
     /\ \A i \in 1..Len(vitals) : ~StrictlyOutside(vitals[i])) =>
        /\ result.urgency_level = "routine"
        /\ ~result.is_emergency
        /\ result.triggered_rules = <<>>

\* C10 witness: the empty symptom list with in-band vitals was evaluated
\* and found routine.
C10_Witness ==
    /\ Evaluated
    /\ symptoms = <<>>
    /\ vitals # <<>>
    /\ result.urgency_level = "routine"

(***************************************************************************)
(* The gates on vitals maps of any content.                                *)
(***************************************************************************)
\* C11: the gate never fails: for every symptom input and every vitals map,
\* maps with unknown names and with non-numeric values included, evaluation
\* returns a verdict and does not raise.
C11_GateNeverFails ==
    pc = "closed" => response \in {"returned", "200"}

\* the vitals map with one more entry, of a name neither gate knows
WithUnknownName(vital_items) ==
    Append(vital_items,
           [name |-> <<"g","l","u","c","o","s","e">>, value |-> 250])

\* the part of C11 that the code keeps: an entry with an unknown vital name
\* never changes the outcome, and a map of numbers never makes a gate raise
C11_UnknownNameIgnored ==
    /\ evaluate_raises(symptoms, WithUnknownName(vitals))
           = evaluate_raises(symptoms, vitals)
    /\ ~evaluate_raises(symptoms, vitals) =>
           evaluate(symptoms, WithUnknownName(vitals)) = evaluate(symptoms, vitals)
    /\ red_flag_evaluate(sanitized_prompt, WithUnknownName(vitals))
           = red_flag_evaluate(sanitized_prompt, vitals)
    /\ (\A i \in 1..Len(vitals) : is_number(vitals[i])) =>
           (pc = "closed" => response \in {"returned", "200"})

(***************************************************************************)
(* The federated aggregator: what the claims speak of.                     *)
(***************************************************************************)
InHandler(r) == requests[r].pc \notin {"done", "aborted"}

Quiescent == \A r \in 1..Len(requests) : ~InHandler(r)

PendingIds == { _pending_updates[i].update : i \in 1..Len(_pending_updates) }

\* C12: every call of aggregate that returns a result leaves the pending
\* buffer empty and current_version exactly one greater than before the
\* call, and its num_clients is the number of updates that were pending
\* when it was called.
C12_AggregateResult ==
    [][ \A r \in 1..Len(requests) :
            (requests[r].pc = "clear" /\ requests'[r].pc = "done") =>
                /\ _pending_updates' = <<>>
                /\ _current_version' = requests[r].at_call.version + 1
                /\ requests'[r].aggregation.version = _current_version'
                /\ requests'[r].aggregation.num_clients
                       = requests[r].at_call.pending ]_vars

\* C12 witness: an aggregation of four updates has returned version 2 (the
\* write of version 1 had failed)
C12_Witness ==
    /\ _pending_updates = <<>>
    /\ _current_version = 2
    /\ \E r \in 1..Len(requests) :
           /\ requests[r].pc = "done"
           /\ requests[r].aggregation.version = 2
           /\ requests[r].aggregation.num_clients = 4

\* C13: receive_update with a vector whose length is not ADAPTER_DIM
\* returns status error and leaves the pending buffer and current_version
\* unchanged; through /api/federated/update the request never reaches
\* aggregate.
C13_WrongDimensionRejected ==
    [][ /\ Len(requests') > Len(requests) =>
            LET request == requests'[Len(requests')]
            IN  Len(request.gradients) # ADAPTER_DIM =>
                    /\ request.status = "error"
                    /\ request.response = "400"
                    /\ _pending_updates' = _pending_updates
                    /\ _current_version' = _current_version
        /\ \A r \in 1..Len(requests') :
               Len(requests'[r].gradients) # ADAPTER_DIM =>
                   requests'[r].pc = "done" ]_vars

\* C13 witness: a vector of dimension 3 was answered 400 while two updates
\* were pending
C13_Witness ==
    /\ Len(requests) = 3
    /\ Len(requests[3].gradients) = 3
    /\ requests[3].response = "400"
    /\ Len(_pending_updates) = 2

\* C14: version increment, adapter file and buffer clearing are
\* all-or-nothing: when no aggregation is under way, current_version = N > 0
\* means that adapter_v<N>.json exists and that the updates it averages are
\* no longer pending.
C14_AllOrNothing ==
    (Quiescent /\ _current_version > 0) =>
        /\ _current_version \in DOMAIN adapter_store
        /\ adapter_store[_current_version].adapter \cap PendingIds = {}

\* C15: the adapter versions published over any sequence of updates,
\* aggregations and restarts are 1, 2, 3, ... without a gap, and no file
\* adapter_v<N>.json is written a second time.
C15_DenseImmutableVersions ==
    \A i \in 1..Len(write_log) : write_log[i] = i

\* the restart alone breaks C15: with every write succeeding
C15_DenseWithoutWriteFailure ==
    (\A r \in 1..Len(requests) : requests[r].response # "500") =>
        \A i \in 1..Len(write_log) : write_log[i] = i

\* C16: under concurrent requests aggregations are serialized: at most one
\* handler (so at most one aggregation) is under way, no receive_update runs
\* beside an aggregation, and every accepted update is either still pending
\* or averaged into exactly one adapter version.
C16_SerializedAggregation ==
    /\ Cardinality({ r \in 1..Len(requests) : InHandler(r) }) <= 1
    /\ (restarts = 0 /\ Quiescent) =>
           \A r \in 1..Len(requests) :
               requests[r].status = "accepted" =>
                   LET versions == { v \in DOMAIN adapter_store :
                                         r \in adapter_store[v].adapter }
                   IN  IF r \in PendingIds THEN versions = {}
                       ELSE Cardinality(versions) = 1

\* C16 witness: six updates were accepted and two adapters published
\* without a restart
C16_Witness ==
    /\ restarts = 0
    /\ Quiescent
    /\ DOMAIN adapter_store = {1, 2}
    /\ adapter_store[1].adapter = {1, 2, 3}
    /\ adapter_store[2].adapter = {4, 5, 6}
    /\ _pending_updates = <<>>

(***************************************************************************)
(* The report store and the RAG engine: what the claims speak of.          *)
(***************************************************************************)
\* C17: index rebuild is atomic: a query never finds an engine whose
\* documents are loaded but whose index is unbuilt; a rebuild that fails
\* leaves the old index installed.
C17_RebuildAtomic ==
    (_engine.exists /\ _engine.documents # <<>>) => _engine._is_built

\* the part of C17 that the code keeps: an engine that is built indexes
\* all of its documents
C17_BuiltIndexComplete ==
    _engine._is_built => _engine.index = _engine.documents

Present(reports, report_id) ==
    \E i \in 1..Len(reports) : reports[i].id = report_id

\* C18: ingest followed by get_text(id) returns the text extracted at
\* ingest; delete(id) of an existing report returns true and get_text(id)
\* then returns not-found; a second delete(id) returns false and changes
\* neither the index nor the files.
C18_ReportStore ==
    [][ /\ reports_made' # reports_made =>
               get_report_text(reports_index', last'.id) = last'.returned
        /\ (last'.op = "delete" /\ Present(reports_index, last'.id)) =>
               /\ last'.returned = <<"True">>
               /\ get_report_text(reports_index', last'.id) = <<>>
               /\ \A other \in 1..MaxReports :
                      other # last'.id =>
                          get_report_text(reports_index', other)
                              = get_report_text(reports_index, other)
        /\ (last'.op = "delete" /\ ~Present(reports_index, last'.id)) =>
               /\ last'.returned = <<"False">>
               /\ reports_index' = reports_index
               /\ raw_files' = raw_files ]_vars

\* C18 witness: report 1 was deleted, then deleted again, while the report
\* of a scanned PDF without text is still stored
C18_Witness ==
    /\ last.op = "delete"
    /\ last.id = 1
    /\ last.returned = <<"False">>
    /\ reports_made = 2
    /\ get_report_text(reports_index, 2) = <<"">>
    /\ raw_files = {[id |-> 2, ext |-> <<".","p","d","f">>]}


\* ---------------------------------------------------------------------
\* The peer review and the chairman's prompt
\* ---------------------------------------------------------------------

\* the anonymization letters of this request
RequestLetters == { anon_map_of(divergence)[i].letter : i \in 1..Len(divergence) }

\* the ids of this request's divergers
DivergerIds == { divergence[i].name : i \in 1..Len(divergence) }

ConvergenceCompleteEvents ==
    { i \in 1..Len(events) : Kind(events[i]) = <<"convergence", "complete">> }

\* a ranking made only of this request's letters
well_formed_ranking(ranking) ==
    /\ ranking.t = "list"
    /\ ranking.v # <<>>
    /\ \A k \in 1..Len(ranking.v) : ranking.v[k] \in RequestLetters

\* C19: the PeerReview emitted by convergence complete always has a ranking
\* made only of this request's anonymization letters, because a missing or
\* malformed ranking (empty, not a list, or with anything but those
\* letters) is replaced by the default order
C19_RankingOfRequestLetters ==
    \A i \in ConvergenceCompleteEvents :
        /\ "ranking" \in DOMAIN events[i].data
        /\ well_formed_ranking(events[i].data["ranking"])

\* what the code does guarantee: a ranking that is absent or not truthy
\* ([], "", 0, false) is replaced by the default order with the
\* reasoning "default order", so the emitted ranking is never absent or
\* empty
C19_AbsentRankingFallsBack ==
    \A i \in ConvergenceCompleteEvents :
        /\ "ranking" \in DOMAIN events[i].data
        /\ truthy(events[i].data["ranking"])
        /\ (calls["reviewer"].text \in {PROSE})
               => events[i].data = default_review(anon_map_of(divergence))

C19_FallbackWitness ==
    /\ ConvergenceCompleteEvents # {}
    /\ calls["reviewer"].text = PROSE
    /\ convergence.peer_review["reasoning"] = JStr("default order")
    /\ convergence.peer_review["ranking"] = JList(<<"A", "B", "C">>)

\* C20: whenever the chairman is called, the record placed in its prompt
\* is the DivergenceMap entry of the diverger that the top letter of the
\* ranking names, never an empty placeholder for an unknown key
C20_TopRecordIsDivergerEntry ==
    calls["chairman"].state # "idle" =>
        /\ top_response(convergence).top_key \in DivergerIds
        /\ \E i \in 1..Len(divergence) :
               /\ divergence[i].name = top_response(convergence).top_key
               /\ top_response(convergence).value = divergence[i].parsed

\* a top letter of this request is resolved to its diverger's own record
C20_KnownLetterResolved ==
    (/\ calls["chairman"].state # "idle"
     /\ well_formed_ranking(convergence.peer_review["ranking"])) =>
        \E i \in 1..Len(divergence) :
            /\ anon_map_of(divergence)[i].letter
                   = convergence.peer_review["ranking"].v[1]
            /\ top_response(convergence).top_key = divergence[i].name
            /\ top_response(convergence).value = divergence[i].parsed

C20_KnownLetterWitness ==
    /\ calls["chairman"].state # "idle"
    /\ convergence.peer_review["ranking"] = JList(<<"B", "A", "C">>)
    /\ top_response(convergence).top_key = "member_b"


\* ---------------------------------------------------------------------
\* The hospital-store write of a council request
\* ---------------------------------------------------------------------

HasEvent(kind) == \E i \in 1..Len(events) : Kind(events[i]) = kind

\* the post-stage has run: store_consultation was called, or building its
\* arguments raised before the call
PostStageRan == store # "none"

\* store_consultation was called
WriteAttempted == store \in StoreOutcomes

\* C21 as stated: on the success path (done emitted) exactly one
\* hospital-store write is attempted, after synthesis complete and before
\* done; a write that raises is swallowed; on the error path no write is
\* attempted
C21_OneWritePerSuccess ==
    /\ HasEvent(<<"done", "">>) => WriteAttempted
    /\ WriteAttempted => HasEvent(<<"synthesis", "complete">>)
    /\ HasEvent(<<"error", "">>) => ~WriteAttempted

\* C21 amended: the post-stage runs exactly once on the success path,
\* after synthesis complete and before done, and attempts at most one
\* write (none when building the record raises, as it does for a summary
\* that is neither a string nor a list); whatever it raises is swallowed:
\* no error event is emitted and done is emitted next; on the error path
\* the post-stage does not run
C21_PostStageOnceAndSwallowed ==
    [][ /\ HasEvent(<<"done", "">>) => PostStageRan
        /\ PostStageRan =>
               /\ HasEvent(<<"synthesis", "complete">>)
               /\ ~HasEvent(<<"error", "">>)
               /\ raised = "none"
               /\ store' = store
        /\ (~PostStageRan /\ PostStageRan') =>
               /\ events' = events
               /\ ~HasEvent(<<"done", "">>)
               /\ pc' = "done"
        /\ (PostStageRan /\ pc = "done") =>
               events' = Append(events, DoneEvent)
        /\ HasEvent(<<"error", "">>) => ~PostStageRan
        /\ (store = "not_called") <=>
               (PostStageRan /\ council_summary_raises(synthesis)) ]_vars

\* C21 witness: the write raised, and done was still the last event
C21_Witness ==
    /\ store = "failed"
    /\ pc = "closed"
    /\ events[Len(events)] = DoneEvent
    /\ ~HasEvent(<<"error", "">>)

\* the chairman's summary was a number: done is emitted although
\* store_consultation was never called
C21_NotCalledWitness ==
    /\ store = "not_called"
    /\ HasEvent(<<"done", "">>)


(***************************************************************************)
(* RAGEngine.retrieve (src/backend/rag/engine.py) on a built index.  The   *)
(* vectorizer and the index give every document its cosine similarity to   *)
(* the query (in tenths); IndexFlatIP.search is the library's: it returns   *)
(* the k best documents by decreasing similarity, and the order of         *)
(* documents of equal similarity is whatever its heap leaves.              *)
(***************************************************************************)
MaxDocuments == 3
MaxTopK == 4

Similarities == {0, 5, 10}

\* the documents of the index, by the similarity of each to the query
\* (document idx of the code is item idx + 1)
Corpora == UNION { [1..n -> Similarities] : n \in 0..MaxDocuments }

RetrieveCalls == [similarities : Corpora, top_k : 1..MaxTopK]

\* injective sequences of length k over 0..n-1
RECURSIVE Arrangements(_, _)
Arrangements(n, k) ==
    IF k = 0 THEN { <<>> }
    ELSE { Append(a, idx) : a \in Arrangements(n, k - 1), idx \in 0..(n - 1) }

\* index.search(query_vec, k): the (score, idx) pairs it may return, the k
\* most similar documents in non-increasing order of score
index_search(similarities, k) ==
    LET n == Len(similarities)
        score(idx) == similarities[idx + 1]
    IN  { found \in Arrangements(n, k) :
            /\ \A i, j \in 1..k : i # j => found[i] # found[j]
            /\ \A i \in 1..(k - 1) : score(found[i]) >= score(found[i + 1])
            /\ \A idx \in 0..(n - 1) :
                   (\A i \in 1..k : found[i] # idx) =>
                       \A i \in 1..k : score(found[i]) >= score(idx) }

\* the loop of retrieve over zip(scores[0], indices[0]): an idx outside the
\* documents is skipped, the others are copied with their score
retrieve_results(similarities, found) ==
    LET n == Len(similarities)
        in_range == SelectSeq(found, LAMBDA idx : ~(idx < 0 \/ idx >= n))
    IN  [i \in 1..Len(in_range) |->
            [idx |-> in_range[i], score |-> similarities[in_range[i] + 1]]]

RetrieveInit ==
    /\ symptoms = <<>>
    /\ vitals = <<>>
    /\ result = NoResult
    /\ entry = "retrieve"
    /\ sanitized_prompt = <<>>
    /\ pc = "start"
    /\ response = "none"
    /\ work = {}
    /\ NoCouncil
    /\ NoFederated
    /\ NoReports
    /\ arguments \in RetrieveCalls
    /\ returned = <<>>
    /\ writers = <<>>

\* retrieve(query, top_k): with no documents build_index leaves the engine
\* unbuilt and [] is returned; else the index is searched for
\* min(top_k, len(documents)) documents
RetrieveTopK ==
    /\ entry = "retrieve" /\ pc = "start"
    /\ LET n == Len(arguments.similarities)
       IN  IF n = 0
           THEN returned' = <<>>
           ELSE \E found \in index_search(arguments.similarities,
                                          Min(arguments.top_k, n)) :
                    returned' = retrieve_results(arguments.similarities, found)
    /\ pc' = "returned"
    /\ UNCHANGED <<gate_vars, entry, sanitized_prompt, response, work,
                   council_vars, federated_vars, report_vars, arguments,
                   writers>>

RetrieveNext == RetrieveTopK

SpecRetrieve == RetrieveInit /\ [][RetrieveNext]_vars

\* the hits are distinct documents of the index, at most min(top_k, N) of
\* them, in non-increasing order of score; none for an empty corpus
TopKHits ==
    LET n == Len(arguments.similarities)
    IN  /\ Len(returned) <= Min(arguments.top_k, n)
        /\ \A i \in 1..Len(returned) :
               /\ returned[i].idx \in 0..(n - 1)
               /\ returned[i].score = arguments.similarities[returned[i].idx + 1]
        /\ \A i, j \in 1..Len(returned) :
               i # j => returned[i].idx # returned[j].idx
        /\ \A i \in 1..(Len(returned) - 1) :
               returned[i].score >= returned[i + 1].score

\* hits of equal score are in the order of their document index
TiesByLowerIndex ==
    \A i \in 1..(Len(returned) - 1) :
        returned[i].score = returned[i + 1].score =>
            returned[i].idx < returned[i + 1].idx

\* C22: for a built index of N documents retrieve returns at most
\* min(top_k, N) hits, each a distinct indexed document, in non-increasing
\* score order with equal scores ordered by lower document index; for an
\* empty corpus it returns zero hits and does not fail
C22_RetrieveOrdered ==
    (entry = "retrieve" /\ pc = "returned") => (TopKHits /\ TiesByLowerIndex)

\* the part of C22 that retrieve keeps: everything but the order of ties
C22_RetrieveTopK ==
    (entry = "retrieve" /\ pc = "returned") => TopKHits

C22_TopKWitness ==
    /\ entry = "retrieve" /\ pc = "returned"
    /\ arguments.top_k = 4
    /\ Len(returned) = 3
    /\ returned[1].score = 10 /\ returned[3].score = 0


(***************************************************************************)
(* clip_gradients (src/backend/federated/dp_privacy.py).  A float64 is a    *)
(* binary floating-point number rounded to nearest, ties to even, after    *)
(* every operation; the model keeps MantissaBits bits of significand where *)
(* float64 keeps 53, and has no limit on the exponent.  A number is        *)
(* m * 2^e with m odd, or zero.                                            *)
(***************************************************************************)
MantissaBits == 5
MaxDim == 2
MaxComponent == 6

Abs(x) == IF x < 0 THEN 0 - x ELSE x
Sign(x) == IF x < 0 THEN 0 - 1 ELSE 1

RECURSIVE Canon(_, _)
Canon(m, e) ==
    IF m = 0 THEN [m |-> 0, e |-> 0]
    ELSE IF m % 2 = 0 THEN Canon(m \div 2, e + 1)
    ELSE [m |-> m, e |-> e]

Float(x) == Canon(x, 0)

\* round to nearest, ties to even: the significand q with the rest r/d
\* beyond its last bit (twice_rest = 2r)
round_nearest_even(q, twice_rest, divisor) ==
    IF twice_rest > divisor \/ (twice_rest = divisor /\ q % 2 = 1)
    THEN q + 1 ELSE q

\* the float nearest to (n / d) * 2^e, for n, d > 0
RoundRatio(n, d, e) ==
    LET P == MantissaBits
        Num(s) == IF s >= 0 THEN n * 2^s ELSE n
        Den(s) == IF s >= 0 THEN d ELSE d * 2^(0 - s)
        s == CHOOSE k \in (0 - 2 * P - 2)..(2 * P + 2) :
                 /\ Num(k) \div Den(k) >= 2^(P - 1)
                 /\ Num(k) \div Den(k) < 2^P
        q == Num(s) \div Den(s)
        r == Num(s) % Den(s)
    IN  Canon(round_nearest_even(q, 2 * r, Den(s)), e - s)

Negate(a) == [m |-> 0 - a.m, e |-> a.e]

\* a * b, a + b, a / b and sqrt(a) of float64
fl_mul(a, b) ==
    IF a.m * b.m = 0 THEN Float(0)
    ELSE LET r == RoundRatio(Abs(a.m * b.m), 1, a.e + b.e)
         IN  IF Sign(a.m) * Sign(b.m) < 0 THEN Negate(r) ELSE r

fl_add(a, b) ==
    LET e == Min(a.e, b.e)
        m == a.m * 2^(a.e - e) + b.m * 2^(b.e - e)
    IN  IF m = 0 THEN Float(0)
        ELSE IF m < 0 THEN Negate(RoundRatio(0 - m, 1, e))
        ELSE RoundRatio(m, 1, e)

fl_div(a, b) ==
    IF a.m = 0 THEN Float(0)
    ELSE LET r == RoundRatio(Abs(a.m), Abs(b.m), a.e - b.e)
         IN  IF Sign(a.m) * Sign(b.m) < 0 THEN Negate(r) ELSE r

fl_sqrt(a) ==
    IF a.m = 0 THEN Float(0)
    ELSE LET P == MantissaBits
             M == IF a.e % 2 = 0 THEN a.m ELSE 2 * a.m
             E == IF a.e % 2 = 0 THEN a.e ELSE a.e - 1
             s == CHOOSE k \in 0..(P + 1) :
                      M * 4^k >= 4^(P - 1) /\ M * 4^k < 4^P
             X == M * 4^s
             q == CHOOSE k \in 0..(2^P) : k * k <= X /\ X < (k + 1) * (k + 1)
         IN  Canon(IF X > q * q + q THEN q + 1 ELSE q, (E \div 2) - s)

\* a > b
fl_gt(a, b) ==
    LET e == Min(a.e, b.e)
    IN  a.m * 2^(a.e - e) > b.m * 2^(b.e - e)

\* x.dot(x), summed in order
RECURSIVE dot(_, _)
dot(x, n) ==
    IF n = 0 THEN Float(0)
    ELSE fl_add(dot(x, n - 1), fl_mul(x[n], x[n]))

\* np.linalg.norm of a vector: sqrt(x.dot(x))
linalg_norm(grad_array) == fl_sqrt(dot(grad_array, Len(grad_array)))

\* mutant: the vector is scaled whatever its norm
clip_gradients_always(gradients, clip_norm) ==
    LET norm == linalg_norm(gradients)
    IN  IF norm.m # 0
        THEN [i \in 1..Len(gradients) |->
                 fl_mul(gradients[i], fl_div(clip_norm, norm))]
        ELSE gradients

\* clip_gradients(gradients, clip_norm)
clip_gradients(gradients, clip_norm) ==
    LET norm == linalg_norm(gradients)
    IN  IF fl_gt(norm, clip_norm)
        THEN [i \in 1..Len(gradients) |->
                 fl_mul(gradients[i], fl_div(clip_norm, norm))]
        ELSE gradients

Components == { Float(x) : x \in (0 - MaxComponent)..MaxComponent }
GradientVectors == UNION { [1..n -> Components] : n \in 0..MaxDim }
ClipNorms == { Float(1), Float(2) }

ClipInit ==
    /\ symptoms = <<>>
    /\ vitals = <<>>
    /\ result = NoResult
    /\ entry = "clip_gradients"
    /\ sanitized_prompt = <<>>
    /\ pc = "start"
    /\ response = "none"
    /\ work = {}
    /\ NoCouncil
    /\ NoFederated
    /\ NoReports
    /\ arguments \in [gradients : GradientVectors, clip_norm : ClipNorms]
    /\ returned = <<>>
    /\ writers = <<>>

\* clip_gradients(gradients, clip_norm)
ClipGradients ==
    /\ entry = "clip_gradients" /\ pc = "start"
    /\ returned' = << clip_gradients(arguments.gradients, arguments.clip_norm) >>
    /\ pc' = "clipped"
    /\ UNCHANGED <<gate_vars, entry, sanitized_prompt, response, work,
                   council_vars, federated_vars, report_vars, arguments,
                   writers>>

\* clip_gradients of what the first call returned
ClipAgain ==
    /\ entry = "clip_gradients" /\ pc = "clipped"
    /\ returned' = Append(returned,
                          clip_gradients(returned[1], arguments.clip_norm))
    /\ pc' = "reclipped"
    /\ UNCHANGED <<gate_vars, entry, sanitized_prompt, response, work,
                   council_vars, federated_vars, report_vars, arguments,
                   writers>>

ClipNext == ClipGradients \/ ClipAgain

SpecClip == ClipInit /\ [][ClipNext]_vars

\* the least exponent of the numbers of a vector and of c
RECURSIVE LeastExponent(_, _, _)
LeastExponent(x, n, e) ==
    IF n = 0 THEN e ELSE LeastExponent(x, n - 1, Min(e, x[n].e))

\* the sum of the squares of a vector, exactly, in units of 4^e
RECURSIVE SquaresIn(_, _, _)
SquaresIn(x, n, e) ==
    IF n = 0 THEN 0
    ELSE SquaresIn(x, n - 1, e) + x[n].m * x[n].m * 4^(x[n].e - e)

\* the L2 norm of x is at most c, in exact arithmetic
NormAtMost(x, c) ==
    LET e == LeastExponent(x, Len(x), c.e)
    IN  SquaresIn(x, Len(x), e) <= c.m * c.m * 4^(c.e - e)

\* C23: clip_gradients is idempotent and norm-bounding: for every vector v
\* and clip norm c > 0, clip(clip(v,c),c) = clip(v,c), the L2 norm of
\* clip(v,c) is at most c, and clip(v,c) = v whenever the norm of v is at
\* most c
C23_ClipIdempotentAndBounded ==
    (entry = "clip_gradients" /\ pc = "reclipped") =>
        /\ returned[2] = returned[1]
        /\ NormAtMost(returned[1], arguments.clip_norm)
        /\ NormAtMost(arguments.gradients, arguments.clip_norm)
               => returned[1] = arguments.gradients

\* the parts of C23, one by one
C23_NormBounded ==
    (entry = "clip_gradients" /\ pc # "start") =>
        NormAtMost(returned[1], arguments.clip_norm)

C23_Idempotent ==
    (entry = "clip_gradients" /\ pc = "reclipped") => returned[2] = returned[1]

C23_IdentityWithinNorm ==
    (entry = "clip_gradients" /\ pc # "start"
        /\ NormAtMost(arguments.gradients, arguments.clip_norm))
        => returned[1] = arguments.gradients

C23_IdentityWitness ==
    /\ entry = "clip_gradients" /\ pc = "clipped"
    /\ arguments.gradients = << Float(1), Float(0 - 1) >>
    /\ arguments.clip_norm = Float(2)
    /\ returned[1] = arguments.gradients


\* ---------------------------------------------------------------------
\* Calls to the provider that never get an answer
\* ---------------------------------------------------------------------

\* the stage a role's call belongs to
StageOf(r) ==
    CASE r = "reviewer" -> "convergence"
      [] r = "chairman" -> "synthesis"
      [] OTHER -> "divergence"

\* the call of role r got no answer before the deadline
TimedOut(r) == calls[r].raised /\ calls[r].error = TIMEOUT

StreamEnded ==
    /\ pc = "closed"
    /\ \/ response = "400"
       \/ /\ events # <<>>
          /\ events[Len(events)].stage \in {"done", "error"}

\* C24: every LLM transport call has a bounded deadline: a diverger,
\* reviewer or chairman call that never responds is treated as having
\* returned the empty-parse sentinel, so the affected stage eventually
\* emits its complete event, and the stream eventually ends with done or
\* error.  (A call that timed out stays so and an emitted event stays
\* emitted, so "eventually" is stated as "from some point on".)
C24_TimeoutTreatedAsSentinel ==
    <>[](/\ \A r \in Roles :
              TimedOut(r) => HasEvent(<<StageOf(r), "complete">>)
         /\ entry = "council" => StreamEnded)

\* the parts of C24 the code keeps: the stream of every council request
\* ends, and a diverger's call that timed out is replaced by the sentinel,
\* divergence complete being emitted with the empty record for it
C24_StreamEnds == <>[](entry = "council" => StreamEnded)

C24_DivergerTimeoutAbsorbed ==
    <>[](TimedOut("member_c") =>
         /\ HasEvent(<<"divergence", "complete">>)
         /\ \E i \in 1..Len(divergence) :
                /\ divergence[i].name = "member_c"
                /\ divergence[i].parsed = EMPTY_RECORD)

C24_DivergerTimeoutWitness ==
    /\ TimedOut("member_c")
    /\ events # <<>>
    /\ events[Len(events)] = DoneEvent


\* ---------------------------------------------------------------------
\* The message of the error event
\* ---------------------------------------------------------------------

\* str(e) of the exception a call to the provider raised
ProviderExceptionTexts == { calls[r].error : r \in { x \in Roles : calls[x].raised } }

ErrorMessages ==
    { events[i].message : i \in { k \in 1..Len(events) : events[k].stage = "error" } }

\* C25: the message carried by the error event is a generic user-safe
\* message that does not depend on the internal cause: the text of the
\* exception is never returned to the client (so two requests that fail
\* with different exceptions carry the same message)
C25_ExceptionTextNotReturned ==
    ErrorMessages \cap ProviderExceptionTexts = {}

\* what the code does: the one error event of a failed request carries
\* str(e) of the exception that left the try block
C25_MessageIsExceptionText ==
    (raised \in {"convergence", "synthesis"} /\ ErrorMessages # {"TypeError"}) =>
        ErrorMessages \subseteq ProviderExceptionTexts


\* ---------------------------------------------------------------------
\* The combination rules of the gate
\* ---------------------------------------------------------------------

\* the rules of the table that fire on the symptoms, by position
FiringRules(symptom_list) ==
    { i \in 1..Len(COMBINATION_RULES) :
          RuleFires(COMBINATION_RULES[i], symptom_list) }

RuleNames == { COMBINATION_RULES[i].name : i \in 1..Len(COMBINATION_RULES) }

\* C26: with no Immediate keyword present, a combination rule fires
\* exactly when at least threshold-many distinct target phrases of the rule
\* are each contained in some symptom (a repeated symptom, or a phrase that
\* several symptoms contain, counts once per phrase); the first rule in
\* table order that fires yields an immediate verdict whose
\* triggered_rules is exactly that rule's name
C26_CombinationRules ==
    (Evaluated /\ entry = "evaluate" /\ ImmediatePhrasesIn(symptoms) = {}) =>
        IF FiringRules(symptoms) # {}
        THEN LET first == CHOOSE i \in FiringRules(symptoms) :
                              \A j \in FiringRules(symptoms) : i <= j
             IN  /\ result.urgency_level = "immediate"
                 /\ result.is_emergency
                 /\ result.triggered_rules = << COMBINATION_RULES[first].name >>
        ELSE Range(result.triggered_rules) \cap RuleNames = {}

\* C26 witness: chest pain and shortness of breath fire cardiac_risk and
\* respiratory_distress; the verdict names cardiac_risk, the first
C26_Witness ==
    /\ Evaluated /\ entry = "evaluate"
    /\ symptoms = << CHEST_PAIN, COMBINATION_RULES[1].symptoms[2] >>
    /\ FiringRules(symptoms) = {1, 3}
    /\ result.triggered_rules = << COMBINATION_RULES[1].name >>

\* chest pain twice is one target phrase: no rule fires
C26_RepeatedWitness ==
    /\ Evaluated /\ entry = "evaluate"
    /\ symptoms = << CHEST_PAIN, CHEST_PAIN >>
    /\ result.urgency_level = "urgent"


\* ---------------------------------------------------------------------
\* What a diverger answers
\* ---------------------------------------------------------------------

\* C27: no content of a diverger's response can fail the pipeline: for
\* every response text (prose, empty text, or a JSON object whose
\* differentials, confidence or red_flag have any JSON type) parsing and
\* summarising never raise, convergence and synthesis still run, and no
\* error event comes of it
C27_DivergerContentNeverFails ==
    HasEvent(<<"divergence", "complete">>) =>
        /\ ~summary_raises(divergence)
        /\ raised = "convergence" => calls["reviewer"].raised

\* the part of C27 the code keeps: prose is recorded as raw and a list of
\* differentials is summarised, and then the reviewer is called
C27_ProseNeverFails ==
    (/\ HasEvent(<<"divergence", "complete">>)
     /\ \A r \in Range(task_names) : calls[r].text # NUMBER_DIFFERENTIALS) =>
        /\ ~summary_raises(divergence)
        /\ raised = "convergence" => calls["reviewer"].raised


(***************************************************************************)
(* Concurrent requests on the report store.  upload_report and              *)
(* remove_report are coroutines; process_report and delete_report are      *)
(* plain functions they call without an await, so from _load_index to the  *)
(* handler's return the event loop runs nothing else.  upload_report       *)
(* awaits file.read() before that.  `running` is the request the event     *)
(* loop is running.                                                        *)
(***************************************************************************)
MaxWriters == 3

NewWriter(op, report_id, upload) ==
    [op |-> op, id |-> report_id, upload |-> upload, pc |-> "start",
     reports |-> <<>>, response |-> ""]

NoUpload == [filename |-> [stem |-> "", suffix |-> <<>>],
             file_bytes |-> [format |-> "utf-8", text |-> "", latin1 |-> "",
                             size |-> 0]]

\* the files uploaded concurrently: the text file and the Latin-1 notes
WriterUploads ==
    { u \in Uploads : u.file_bytes.size > 0
                      /\ u.file_bytes.format \in {"utf-8", "latin-1"} }

\* the record process_report appends for an upload
report_record(report_id, upload) ==
    [id |-> report_id, filename |-> upload.filename,
     file_type |-> lower(upload.filename.suffix),
     extracted_text |-> extract_text(lower(upload.filename.suffix),
                                     upload.file_bytes)]

WritersInit ==
    /\ symptoms = <<>>
    /\ vitals = <<>>
    /\ result = NoResult
    /\ entry = "report_writers"
    /\ sanitized_prompt = <<>>
    /\ pc = "start"
    /\ response = "none"
    /\ work = {}
    /\ NoCouncil
    /\ NoBackend

writer_frame == <<gate_vars, request_vars, council_vars, pure_vars,
                  _pending_updates, _current_version, adapter_store,
                  write_log, requests, restarts, last>>

\* a request POST /api/reports/upload arrives; the handler awaits
\* file.read()
UploadArrives ==
    /\ entry = "report_writers"
    /\ Len(writers) < MaxWriters
    /\ \E upload \in WriterUploads :
           writers' = Append(writers,
                             [NewWriter("ingest", Len(writers) + 1, upload)
                                  EXCEPT !.pc = "read"])
    /\ UNCHANGED <<writer_frame, reports_index, raw_files, reports_made,
                   _engine, running>>

\* a request DELETE /api/reports/{report_id} arrives
DeleteArrives ==
    /\ entry = "report_writers"
    /\ Len(writers) < MaxWriters
    /\ \E report_id \in 1..MaxWriters :
           writers' = Append(writers,
                             [NewWriter("delete", report_id, NoUpload)
                                  EXCEPT !.pc = "called"])
    /\ UNCHANGED <<writer_frame, reports_index, raw_files, reports_made,
                   _engine, running>>

\* the event loop resumes a handler: process_report writes the raw file
\* and calls _load_index; delete_report calls _load_index
LoadIndex ==
    /\ entry = "report_writers"
    /\ event_loop_free(running)
    /\ \E w \in 1..Len(writers) :
           /\ writers[w].pc \in {"read", "called"}
           /\ writers' = [writers EXCEPT ![w].pc = "loaded",
                                         ![w].reports = reports_index]
           /\ raw_files' = IF writers[w].op = "ingest"
                           THEN raw_files \cup
                                  {[id |-> writers[w].id,
                                    ext |-> lower(writers[w].upload.filename.suffix)]}
                           ELSE raw_files
           /\ running' = w
    /\ UNCHANGED <<writer_frame, reports_index, reports_made, _engine>>

\* the rest of the handler: _save_index of what was loaded and changed
\* (delete_report returns False without saving when nothing was dropped),
\* the raw file of a deleted report unlinked, the engine rebuilt, the
\* response returned
SaveIndex ==
    /\ entry = "report_writers"
    /\ \E w \in 1..Len(writers), outcome \in BuildOutcomes :
           /\ writers[w].pc = "loaded"
           /\ LET reports == writers[w].reports
                  updated == IF writers[w].op = "ingest"
                             THEN Append(reports,
                                         report_record(writers[w].id,
                                                       writers[w].upload))
                             ELSE SelectSeq(reports,
                                            LAMBDA r : kept(r, writers[w].id))
                  found   == Len(updated) # Len(reports)
                  rebuilt == rebuild_rag_engine(updated, outcome)
              IN  /\ reports_index' = IF found THEN updated ELSE reports_index
                  /\ raw_files' = IF found /\ writers[w].op = "delete"
                                  THEN raw_files \ glob_report(raw_files,
                                                               writers[w].id)
                                  ELSE raw_files
                  /\ _engine' = IF found THEN rebuilt.engine ELSE _engine
                  /\ reports_made' = IF writers[w].op = "ingest"
                                     THEN reports_made + 1 ELSE reports_made
                  /\ writers' = [writers EXCEPT
                                    ![w].pc = "done",
                                    ![w].response =
                                        IF ~found THEN "404"
                                        ELSE IF rebuilt.raised THEN "500"
                                        ELSE "200"]
           /\ running' = 0
    /\ UNCHANGED writer_frame

WritersNext == UploadArrives \/ DeleteArrives \/ LoadIndex \/ SaveIndex

SpecWriters == WritersInit /\ [][WritersNext]_vars

\* process_report has returned status processed for writer w
Processed(w) == writers[w].op = "ingest" /\ writers[w].pc = "done"

\* a delete_report of the id has dropped the record
Deleted(report_id) ==
    \E d \in 1..Len(writers) :
        /\ writers[d].op = "delete" /\ writers[d].id = report_id
        /\ writers[d].pc = "done" /\ writers[d].response # "404"

\* C28: writers of the persistent report index serialize among
\* themselves: for any interleaving of concurrent ingest and delete
\* operations, every report whose ingest returned status processed and
\* that was not deleted is in reports_index.json (the load-modify-save of
\* one writer never overwrites another writer's append), and a deleted
\* report is not
C28_WritersSerialized ==
    /\ Cardinality({ w \in 1..Len(writers) : writers[w].pc = "loaded" }) <= 1
    /\ \A w \in 1..Len(writers) :
           Processed(w) =>
               (Present(reports_index, writers[w].id) <=> ~Deleted(writers[w].id))

\* C28 witness: two uploads were being read at once, both were processed
\* and both are in the index, after a delete that found nothing
C28_Witness ==
    /\ Len(writers) = 3
    /\ writers[1].op = "delete" /\ writers[1].id = 2
    /\ writers[1].response = "404"
    /\ Processed(2) /\ Processed(3)
    /\ Len(reports_index) = 2
    /\ reports_index[1].id = 3 /\ reports_index[2].id = 2

(***************************************************************************)
(* The update handler and the threshold of aggregate(min_clients=3).       *)
(***************************************************************************)
\* the updates whose request has been answered as accepted
AcceptedUpdates ==
    { r \in 1..Len(requests) :
          requests[r].status = "accepted" /\ requests[r].pc = "done" }

\* the adapter versions whose file averages update r
VersionsOf(r) == { v \in DOMAIN adapter_store : r \in adapter_store[v].adapter }

\* C29: the update handler aggregates as soon as the buffer reaches its
\* threshold of 3: while the process runs, after every completed update
\* request the pending buffer holds at most 2 updates, and every accepted
\* update contributes to exactly one published adapter version or is
\* still pending.
C29_AggregatesAtThreshold ==
    (restarts = 0 /\ Quiescent) =>
        /\ Len(_pending_updates) <= MIN_CLIENTS - 1
        /\ \A r \in AcceptedUpdates :
               IF r \in PendingIds THEN VersionsOf(r) = {}
               ELSE Cardinality(VersionsOf(r)) = 1

\* the first half of C29 alone
C29_PendingBelowThreshold ==
    (restarts = 0 /\ Quiescent) => Len(_pending_updates) <= MIN_CLIENTS - 1

\* C29 where every adapter write succeeds
C29_WithoutFailure ==
    (\A r \in 1..Len(requests) : requests[r].response # "500")
        => C29_AggregatesAtThreshold

(***************************************************************************)
(* The two gates on one input: POST /api/triage                            *)
(* (core.red_flag_engine.evaluate on the prompt) and RedFlagEngine.evaluate *)
(* on the same text, as a list of one symptom, with the same vitals.       *)
(***************************************************************************)
FEVER_COUGH == <<"f","e","v","e","r",","," ","c","o","u","g","h">>
HAD_A_SEIZURE == <<"h","a","d"," ","a"," ","s","e","i","z","u","r","e">>
TOOK_AN_OVERDOSE == <<"t","o","o","k"," ","a","n"," ","o","v","e","r","d","o","s","e">>
TEMPERATURE_C == CORE_VITAL_NAMES[5]

TriagePrompts ==
    { FEVER_COUGH, HAD_A_SEIZURE, TOOK_AN_OVERDOSE, SLURRED_SPEECH,
      SEVERE_CHEST_PAIN, MILD_HEADACHE, BLANK }

TriageVitalItems ==
    { [name |-> OXYGEN_SATURATION, value |-> 88],
      [name |-> OXYGEN_SATURATION, value |-> 98],
      [name |-> SPO2, value |-> 93],
      [name |-> HEART_RATE, value |-> 115],
      [name |-> HEART_RATE, value |-> 72],
      [name |-> TEMPERATURE_C, value |-> 40] }

TriageVitalDicts ==
    { d \in SeqsUpTo(TriageVitalItems, MaxVitals) :
        \A i, j \in 1..Len(d) : i # j => d[i].name # d[j].name }

NoTriage == [is_emergency |-> FALSE, reason |-> <<>>, action |-> "none"]

TriageAgreementInit ==
    /\ symptoms = <<>>
    /\ vitals \in TriageVitalDicts
    /\ result = NoResult
    /\ entry = "both_gates"
    /\ sanitized_prompt \in TriagePrompts
    /\ pc = "start"
    /\ response = "none"
    /\ work = {}
    /\ NoCouncil
    /\ NoFederated
    /\ NoReports
    /\ arguments = <<>>
    /\ returned = NoTriage
    /\ writers = <<>>

\* POST /api/triage with the prompt and the vitals
TriageRequest ==
    /\ entry = "both_gates"
    /\ "triage" \notin work
    /\ LET verdict == red_flag_evaluate(sanitized_prompt, vitals)
       IN  returned' = [is_emergency |-> verdict.is_emergency,
                        reason |-> verdict.reason,
                        action |-> IF verdict.is_emergency
                                   THEN "CALL_EMERGENCY_SERVICES"
                                   ELSE "PROCEED_TO_COUNCIL"]
    /\ response' = "200"
    /\ work' = work \cup {"triage"}
    /\ UNCHANGED <<symptoms, vitals, result, entry, sanitized_prompt, pc,
                   council_vars, federated_vars, report_vars, arguments,
                   writers>>

\* RedFlagEngine.evaluate([prompt], vitals)
EvaluateSameInput ==
    /\ entry = "both_gates"
    /\ "evaluate" \notin work
    /\ symptoms' = <<sanitized_prompt>>
    /\ result' = evaluate(<<sanitized_prompt>>, vitals)
    /\ work' = work \cup {"evaluate"}
    /\ UNCHANGED <<vitals, entry, sanitized_prompt, pc, response,
                   council_vars, federated_vars, report_vars, pure_vars,
                   writers>>

TriageAgreementNext == TriageRequest \/ EvaluateSameInput

SpecTriageAgreement == TriageAgreementInit /\ [][TriageAgreementNext]_vars

\* C30: the gate served by /api/triage and RedFlagEngine.evaluate agree on
\* the emergency decision: for every prompt text and vitals map,
\* /api/triage reports is_emergency (action CALL_EMERGENCY_SERVICES)
\* exactly when RedFlagEngine.evaluate on the same text and vitals yields
\* Immediate.
C30_GatesAgree ==
    work = {"triage", "evaluate"} =>
        /\ returned.is_emergency <=> result.urgency_level = "immediate"
        /\ returned.is_emergency <=> returned.action = "CALL_EMERGENCY_SERVICES"

\* the half of C30 that the code keeps: the action names the decision
C30_ActionNamesDecision ==
    "triage" \in work =>
        (returned.is_emergency <=> returned.action = "CALL_EMERGENCY_SERVICES")

\* the inputs of C30 on which the two gates differ
C30_Disagreement ==
    /\ work = {"triage", "evaluate"}
    /\ returned.is_emergency # (result.urgency_level = "immediate")

=============================================================================
